---- MODULE Spec2Model ----
(***************************************************************************)
(* Model of the inbound mail path of tempmail-server:                      *)
(*   - SMTPHandler (src/services/smptServer.js): the line-oriented SMTP    *)
(*     session engine;                                                     *)
(*   - EmailService.processIncomingEmail (src/services/emailService.js):   *)
(*     the ingestion pipeline, the recipient gate and the persistence call;*)
(*   - TempEmail / Email (src/models): the address store and the sink.     *)
(*   - the routes over the store (routes/tempEmailRoutes.js) behind the   *)
(*     rate limiter (src/middleware/rateLimiter.js), and the cleanup run.  *)
(* Text is modelled as TLA+ strings, one character per position; CR and LF *)
(* are the characters "\r" and "\n".                                       *)
(***************************************************************************)
EXTENDS Integers, Sequences, FiniteSets, TLC

VARIABLES
  currentState,   \* SMTPHandler.currentState (one field per handler object)
  currentMail,    \* SMTPHandler.currentMail: [from, to, data]
  sockets,        \* per connection: [status, buffer]; buffer is handleConnection's closure variable
  written,        \* what the latest step wrote to sockets: sequence of [conn, text]
  handed,         \* raw messages the latest step passed to processIncomingEmail: sequence of [conn, raw]
  pat,            \* how far the latest lines of one connection match HELO; MAIL FROM; RCPT TO; DATA; body; "."
  fin,            \* observation taken right after the "." that completes that sequence
  feed,           \* per connection: the lines of the client's script that have not arrived yet
  tasks,          \* processIncomingEmail calls in flight
  temp_emails,    \* rows of table temp_emails
  emails,         \* rows of table emails
  emails_id_seq,  \* the sequence behind emails.id (SERIAL): the last value it gave out
  now,            \* the clock (new Date())
  lastResult,     \* outcome of the processIncomingEmail call that completed most recently, <<>> once a later task starts or steps
  files,          \* raw message files still to be processed by processEmailsFromDirectory
  buckets,        \* memory of the rate limiter: per key, the points consumed and when the window ends
  response,       \* the response to the latest API request
  temp_emails_id_seq, \* the sequence behind temp_emails.id (SERIAL): the last value it gave out
  calls,          \* the number of API requests the clients have still to send
  connections,    \* SMTPHandler.connections: the sockets of the connections in progress
  server,         \* SMTPHandler.server: "none" before start(), then "listening", "closed" after stop()
  destroyed,      \* the sockets on which destroy() has been called
  body_text,      \* processIncomingEmail's local bodyText, for the calls observed on their own
  bodyStage,      \* how far such a call is: "none", "parsed", "cleaned", "decoded"
  requests,       \* POST /generate requests in progress, each waiting at one of the handler's awaits
  emailData,      \* PostfixHandler.handleConnection's closure variable emailData
  isReceivingData, \* PostfixHandler.handleConnection's closure variable isReceivingData
  postfixSocket,  \* the socket of the PostfixHandler connection: "none", "open", "ended"
  incoming,       \* the reads of that socket that have not arrived yet
  processed,      \* the arguments of the processEmail calls made so far
  jobs,           \* CleanupScheduler.jobs: job name -> [running, starts] of its CronJob
  isRunning,      \* CleanupScheduler.isRunning
  returned        \* how the latest call of a scheduler method ended: <<>> or [op, name, result]

vars == <<currentState, currentMail, sockets, written, handed, pat, fin, feed,
          tasks, temp_emails, emails, emails_id_seq, now, lastResult, files,
          buckets, response, temp_emails_id_seq, calls,
          connections, server, destroyed, body_text, bodyStage, requests, emailData,
          isReceivingData, postfixSocket, incoming, processed, jobs, isRunning, returned>>

sessionVars == <<currentState, currentMail, sockets, written, handed, pat, fin>>
storeVars   == <<temp_emails, emails, emails_id_seq, now>>
apiVars     == <<buckets, response, temp_emails_id_seq, calls>>
acceptorVars  == <<connections, server, destroyed>>
cleanVars     == <<body_text, bodyStage>>
schedulerVars == <<jobs, isRunning, returned>>
postfixVars   == <<emailData, isReceivingData, postfixSocket, incoming, processed>>
serviceVars   == <<acceptorVars, cleanVars, requests, postfixVars, schedulerVars>>

\* the services as constructed, none of them started
InitService ==
  /\ connections = {}
  /\ server = "none"
  /\ destroyed = {}
  /\ body_text = ""
  /\ bodyStage = "none"
  /\ requests = <<>>
  /\ emailData = ""
  /\ isReceivingData = FALSE
  /\ postfixSocket = "none"
  /\ incoming = <<>>
  /\ processed = <<>>
  /\ jobs = <<>>
  /\ isRunning = FALSE
  /\ returned = <<>>

----------------------------------------------------------------------------
(* Bounds of the model *)

MaxRcpt == 1     \* recipients accumulated in one envelope
MaxBody == 1     \* body lines accumulated in one data buffer
MaxBuf  == 2     \* characters of an incomplete line kept in a connection's buffer
MaxNow  == 2     \* clock values 0..MaxNow
MaxFiles == 2    \* files of one processEmailsFromDirectory run

----------------------------------------------------------------------------
(* JavaScript string primitives used by the code *)

CRLF == "\r\n"

At(s, i) == SubSeq(s, i, i)

LowerAlphabet == "abcdefghijklmnopqrstuvwxyz"
UpperAlphabet == "ABCDEFGHIJKLMNOPQRSTUVWXYZ"

UpperTable ==
  [ch \in {At(LowerAlphabet, i) : i \in 1..26} |->
     At(UpperAlphabet, CHOOSE i \in 1..26 : At(LowerAlphabet, i) = ch)]

LowerTable ==
  [ch \in {At(UpperAlphabet, i) : i \in 1..26} |->
     At(LowerAlphabet, CHOOSE i \in 1..26 : At(UpperAlphabet, i) = ch)]

UpperOf(ch) == IF ch \in DOMAIN UpperTable THEN UpperTable[ch] ELSE ch

LowerOf(ch) == IF ch \in DOMAIN LowerTable THEN LowerTable[ch] ELSE ch

RECURSIVE toUpperCase(_)
toUpperCase(s) == IF s = "" THEN "" ELSE UpperOf(Head(s)) \o toUpperCase(Tail(s))

RECURSIVE toLowerCase(_)
toLowerCase(s) == IF s = "" THEN "" ELSE LowerOf(Head(s)) \o toLowerCase(Tail(s))

startsWith(s, p) == Len(s) >= Len(p) /\ SubSeq(s, 1, Len(p)) = p

endsWith(s, p) == Len(s) >= Len(p) /\ SubSeq(s, Len(s) - Len(p) + 1, Len(s)) = p

\* first position of p in s, 0 when absent (String.prototype.indexOf + 1)
indexOf(s, p) ==
  LET hits == {i \in 1..(Len(s) - Len(p) + 1) : SubSeq(s, i, i + Len(p) - 1) = p}
  IN IF hits = {} THEN 0 ELSE CHOOSE i \in hits : \A j \in hits : i <= j

includes(s, p) == indexOf(s, p) > 0

\* String.prototype.split(sep): the pieces between occurrences of sep
RECURSIVE split(_, _)
split(s, sep) ==
  LET i == indexOf(s, sep)
  IN IF i = 0 THEN <<s>>
     ELSE <<SubSeq(s, 1, i - 1)>> \o split(SubSeq(s, i + Len(sep), Len(s)), sep)

\* Array.prototype.join(sep)
RECURSIVE join(_, _)
join(xs, sep) ==
  IF xs = <<>> THEN ""
  ELSE IF Len(xs) = 1 THEN xs[1]
  ELSE xs[1] \o sep \o join(Tail(xs), sep)

IsSpace(ch) == ch \in {" ", "\t", "\n", "\r", "\f"}

RECURSIVE trimStart(_)
trimStart(s) == IF s # "" /\ IsSpace(Head(s)) THEN trimStart(Tail(s)) ELSE s

RECURSIVE trimEnd(_)
trimEnd(s) ==
  IF s # "" /\ IsSpace(At(s, Len(s))) THEN trimEnd(SubSeq(s, 1, Len(s) - 1)) ELSE s

trim(s) == trimEnd(trimStart(s))

----------------------------------------------------------------------------
(* SMTPHandler: src/services/smptServer.js *)

Conns == {1, 2}

EmptyMail == [from |-> "", to |-> <<>>, data |-> ""]

\* extractEmail: command.match(/<([^>]+)>/), group 1 or ""
extractEmail(command) ==
  LET starts == {i \in 1..Len(command) :
                   /\ At(command, i) = "<"
                   /\ i + 1 <= Len(command)
                   /\ At(command, i + 1) # ">"
                   /\ \E j \in (i + 2)..Len(command) : At(command, j) = ">"}
  IN IF starts = {} THEN ""
     ELSE LET i == CHOOSE k \in starts : \A m \in starts : k <= m
              j == CHOOSE k \in (i + 2)..Len(command) :
                     /\ At(command, k) = ">"
                     /\ \A m \in (i + 2)..(k - 1) : At(command, m) # ">"
          IN SubSeq(command, i + 1, j - 1)

\* toUTCString of the model's clock values
DateString(t) == "Thu, 01 Jan 1970 00:00:0" \o ToString(t) \o " GMT"

\* processSMTPEmail, up to its first await: the raw message built from currentMail
BuildRawEmail(mail, t) ==
  join(<< "From: " \o mail.from,
          "To: " \o join(mail.to, ", "),
          "Date: " \o DateString(t),
          "",
          mail.data >>, CRLF)

\* The session as one command sees and leaves it:
\*   st, mail : currentState, currentMail
\*   out      : replies written, in order
\*   msgs     : raw messages handed to processIncomingEmail
\*   ended    : socket.end() was called
Sess(st, mail, out, msgs, ended) ==
  [st |-> st, mail |-> mail, out |-> out, msgs |-> msgs, ended |-> ended]

\* socket.write(text); after socket.end() nothing more is sent
Reply(s, text) == IF s.ended THEN s ELSE [s EXCEPT !.out = Append(@, text)]

\* a reset that empties the sender and the data buffer and keeps the recipients
resetCurrentMail_KeepsRecipients(s) == [s EXCEPT !.mail.from = "", !.mail.data = ""]

\* resetCurrentMail()
resetCurrentMail(s) == [s EXCEPT !.mail = EmptyMail]

\* handleSMTPCommand(socket, command)
handleSMTPCommand(s, command, t) ==
  LET cmd == toUpperCase(command) IN
  IF startsWith(cmd, "HELO") \/ startsWith(cmd, "EHLO") THEN
    [Reply(s, "250 tempmail.local Hello\r\n") EXCEPT !.st = "READY"]
  ELSE IF startsWith(cmd, "MAIL FROM:") THEN
    [Reply(s, "250 OK\r\n") EXCEPT !.mail.from = extractEmail(cmd), !.st = "MAIL"]
  ELSE IF startsWith(cmd, "RCPT TO:") THEN
    [Reply(s, "250 OK\r\n") EXCEPT !.mail.to = Append(@, extractEmail(cmd)), !.st = "RCPT"]
  ELSE IF cmd = "DATA" THEN
    [Reply(s, "354 Start mail input; end with <CRLF>.<CRLF>\r\n")
       EXCEPT !.st = "DATA", !.mail.data = ""]
  ELSE IF s.st = "DATA" THEN
    IF command = "." THEN
      [resetCurrentMail(Reply(s, "250 OK: Message accepted\r\n"))
         EXCEPT !.msgs = Append(@, BuildRawEmail(s.mail, t)),
                !.st = "READY"]
    ELSE
      [s EXCEPT !.mail.data = @ \o command \o CRLF]
  ELSE IF cmd = "QUIT" THEN
    [Reply(s, "221 Bye\r\n") EXCEPT !.ended = TRUE]
  ELSE IF cmd = "RSET" THEN
    [Reply(resetCurrentMail(s), "250 OK\r\n") EXCEPT !.st = "READY"]
  ELSE
    Reply(s, "500 Command not recognized\r\n")

(* The claim-side reading of one connection's input: how far the lines most *)
(* recently received (all on one connection, none from another in between)  *)
(* match  HELO x; MAIL FROM:<a>; RCPT TO:<b>; DATA; body lines; "."         *)

NoPat == [conn |-> 0, phase |-> 0, a |-> "", b |-> ""]

IsHeloLine(line) == startsWith(line, "HELO ")
IsMailLine(line) ==
  /\ startsWith(line, "MAIL FROM:<") /\ endsWith(line, ">") /\ Len(line) > 12
  /\ ~includes(SubSeq(line, 12, Len(line) - 1), ">")
IsRcptLine(line) ==
  /\ startsWith(line, "RCPT TO:<") /\ endsWith(line, ">") /\ Len(line) > 10
  /\ ~includes(SubSeq(line, 10, Len(line) - 1), ">")

PatStep(p, c, line) ==
  LET q == IF p.conn = c THEN p ELSE NoPat IN
  IF q.phase = 4 THEN (IF line = "." THEN NoPat ELSE q)
  ELSE IF IsHeloLine(line) THEN [conn |-> c, phase |-> 1, a |-> "", b |-> ""]
  ELSE IF q.phase = 1 /\ IsMailLine(line)
    THEN [q EXCEPT !.phase = 2, !.a = SubSeq(line, 12, Len(line) - 1)]
  ELSE IF q.phase = 2 /\ IsRcptLine(line)
    THEN [q EXCEPT !.phase = 3, !.b = SubSeq(line, 10, Len(line) - 1)]
  ELSE IF q.phase = 3 /\ line = "DATA" THEN [q EXCEPT !.phase = 4]
  ELSE NoPat

\* the lines of one "data" event, in order: for (const line of lines) handleSMTPCommand(socket, line)
RECURSIVE RunLines(_, _, _, _)
RunLines(acc, lines, c, t) ==
  IF lines = <<>> THEN acc
  ELSE
    LET line == Head(lines)
        s2   == handleSMTPCommand(acc.s, line, t)
        q    == IF acc.p.conn = c THEN acc.p ELSE NoPat
        done == q.phase = 4 /\ line = "."
        f2   == IF done
                THEN << [conn |-> c, a |-> q.a, b |-> q.b,
                         msgs |-> SubSeq(s2.msgs, Len(acc.s.msgs) + 1, Len(s2.msgs)),
                         st |-> s2.st, mail |-> s2.mail] >>
                ELSE acc.f
    IN RunLines([s |-> s2, p |-> PatStep(acc.p, c, line), f |-> f2], Tail(lines), c, t)

BodyLines(data) == Len(split(data, CRLF)) - 1

\* handleConnection(socket): greeting, and the handler's state goes to READY
Accept(c) ==
  /\ sockets[c].status = "idle"
  /\ sockets' = [sockets EXCEPT ![c] = [status |-> "open", ended |-> FALSE, buffer |-> ""]]
  /\ written' = << [conn |-> c, text |-> "220 tempmail.local SMTP Service Ready\r\n"] >>
  /\ currentState' = "READY"
  /\ handed' = <<>>
  /\ fin' = <<>>
  /\ pat' = NoPat
  /\ UNCHANGED currentMail

\* the body of the "data" handler on one decoded chunk: buffer += chunk; lines = buffer.split("\r\n");
\* buffer = lines.pop() || ""; each complete line handled in order
DataEvent(s, p, buffer, chunk, c, t) ==
  LET buf   == buffer \o chunk
      parts == split(buf, CRLF)
      lines == SubSeq(parts, 1, Len(parts) - 1)
      r     == RunLines([s |-> s, p |-> p, f |-> <<>>], lines, c, t)
  IN [s |-> r.s, p |-> r.p, f |-> r.f, buffer |-> parts[Len(parts)]]

\* socket.on("data"): reassemble lines from the byte stream and handle each complete one
OnData(c, chunk) ==
  /\ sockets[c].status = "open"
  /\ LET r == DataEvent(Sess(currentState, currentMail, <<>>, <<>>, sockets[c].ended),
                        pat, sockets[c].buffer, chunk, c, now)
     IN /\ currentState' = r.s.st
        /\ currentMail' = r.s.mail
        /\ sockets' = [sockets EXCEPT ![c].buffer = r.buffer, ![c].ended = r.s.ended]
        /\ written' = [i \in 1..Len(r.s.out) |-> [conn |-> c, text |-> r.s.out[i]]]
        /\ handed' = [i \in 1..Len(r.s.msgs) |-> [conn |-> c, raw |-> r.s.msgs[i]]]
        /\ pat' = r.p
        /\ fin' = r.f

\* socket "end" / "error" / close: the handler only logs
OnClose(c) ==
  /\ sockets[c].status = "open"
  /\ sockets' = [sockets EXCEPT ![c].status = "closed"]
  /\ written' = <<>>
  /\ handed' = <<>>
  /\ fin' = <<>>
  /\ UNCHANGED <<currentState, currentMail, pat>>

----------------------------------------------------------------------------
(* simpleParser(rawEmail): what the mailparser call of emailService.js      *)
(* returns for single-part messages with CRLF line ends and unfolded        *)
(* headers (the only messages this model feeds it).                         *)

\* index of the first empty line of ls, Len(ls) + 1 when there is none
FirstBlank(ls) ==
  CHOOSE i \in 1..(Len(ls) + 1) :
    /\ (i = Len(ls) + 1 \/ ls[i] = "")
    /\ \A j \in 1..(i - 1) : ls[j] # ""

\* one header line "Key: value": the key lower-cased, the value trimmed
ParseHeaderLine(line) ==
  LET i == indexOf(line, ":")
  IN [key   |-> toLowerCase(trim(SubSeq(line, 1, i - 1))),
      value |-> trim(SubSeq(line, i + 1, Len(line)))]

\* headers.get(key): the value of the first header line with that key, <<>> when absent
HeaderGet(hs, key) ==
  LET hits == {i \in 1..Len(hs) : hs[i].key = key}
  IN IF hits = {} THEN <<>>
     ELSE << hs[CHOOSE k \in hits : \A m \in hits : k <= m].value >>

\* libmime.decodeWords on a subject that is one Q-encoded word =?charset?Q?text?= :
\* "_" stands for a space; any other value is returned as it is
RECURSIVE QWordText(_)
QWordText(t) ==
  IF t = "" THEN ""
  ELSE (IF Head(t) = "_" THEN " " ELSE Head(t)) \o QWordText(Tail(t))

decodeWords(value) ==
  IF startsWith(toUpperCase(value), "=?UTF-8?Q?") /\ endsWith(value, "?=") /\ Len(value) >= 12
  THEN QWordText(SubSeq(value, 11, Len(value) - 2))
  ELSE value

\* addressparser on one list entry: "name <addr>", "addr@host" or a bare name
ParseAddress(entry) ==
  LET lt == indexOf(entry, "<")
      gt == indexOf(entry, ">")
  IN IF lt > 0 /\ gt > lt
     THEN [address |-> SubSeq(entry, lt + 1, gt - 1), name |-> trim(SubSeq(entry, 1, lt - 1))]
     ELSE IF includes(entry, "@")
     THEN [address |-> entry, name |-> ""]
     ELSE [address |-> "", name |-> entry]

\* addressparser on a header value: the non-empty comma-separated entries, in order
RECURSIVE ParseEntries(_)
ParseEntries(pieces) ==
  IF pieces = <<>> THEN <<>>
  ELSE (IF trim(Head(pieces)) = "" THEN <<>> ELSE << ParseAddress(trim(Head(pieces))) >>)
       \o ParseEntries(Tail(pieces))

ParseAddressList(v) == IF v = <<>> THEN <<>> ELSE ParseEntries(split(v[1], ","))

simpleParser(rawEmail) ==
  LET ls   == split(rawEmail, CRLF)
      k    == FirstBlank(ls)
      hls  == SelectSeq(SubSeq(ls, 1, k - 1), LAMBDA l : includes(l, ":"))
      hs   == [i \in 1..Len(hls) |-> ParseHeaderLine(hls[i])]
      subj == HeaderGet(hs, "subject")
  IN [headers |-> hs,
      subject |-> IF subj = <<>> THEN <<>> ELSE << decodeWords(subj[1]) >>,
      messageId |-> HeaderGet(hs, "message-id"),
      from    |-> ParseAddressList(HeaderGet(hs, "from")),
      to      |-> ParseAddressList(HeaderGet(hs, "to")),
      text    |-> join(SubSeq(ls, k + 1, Len(ls)), "\n")]

----------------------------------------------------------------------------
(* EmailService: src/services/emailService.js *)

\* a resolver that would consult Delivered-To before Envelope-To
extractRecipientEmail_DeliveredFirst(parsed) ==
  IF parsed.to # <<>> /\ parsed.to[1].address # ""
  THEN toLowerCase(parsed.to[1].address)
  ELSE IF HeaderGet(parsed.headers, "delivered-to") \notin {<<>>, <<"">>}
  THEN toLowerCase(HeaderGet(parsed.headers, "delivered-to")[1])
  ELSE IF HeaderGet(parsed.headers, "envelope-to") \notin {<<>>, <<"">>}
  THEN toLowerCase(HeaderGet(parsed.headers, "envelope-to")[1])
  ELSE ""

\* a resolver that would fall back to the sender when no recipient header gives an address
extractRecipientEmail_SenderFallback(parsed) ==
  IF parsed.to # <<>> /\ parsed.to[1].address # ""
  THEN toLowerCase(parsed.to[1].address)
  ELSE IF HeaderGet(parsed.headers, "envelope-to") \notin {<<>>, <<"">>}
  THEN toLowerCase(HeaderGet(parsed.headers, "envelope-to")[1])
  ELSE IF HeaderGet(parsed.headers, "delivered-to") \notin {<<>>, <<"">>}
  THEN toLowerCase(HeaderGet(parsed.headers, "delivered-to")[1])
  ELSE IF parsed.from # <<>> THEN toLowerCase(parsed.from[1].address)
  ELSE "unknown"

\* extractRecipientEmail(parsed); "" stands for null
extractRecipientEmail(parsed) ==
  IF parsed.to # <<>> /\ parsed.to[1].address # ""
  THEN toLowerCase(parsed.to[1].address)
  ELSE IF HeaderGet(parsed.headers, "envelope-to") \notin {<<>>, <<"">>}
  THEN toLowerCase(HeaderGet(parsed.headers, "envelope-to")[1])
  ELSE IF HeaderGet(parsed.headers, "delivered-to") \notin {<<>>, <<"">>}
  THEN toLowerCase(HeaderGet(parsed.headers, "delivered-to")[1])
  ELSE ""

HexDigits == "0123456789ABCDEF"
IsHex(ch) == ch # "" /\ includes(HexDigits, ch)
HexValue(ch) == indexOf(HexDigits, ch) - 1

\* the characters of codes 32..95 and 97..126
AsciiLow == " !\"#$%&'()*+,-./0123456789:;<=>?@ABCDEFGHIJKLMNOPQRSTUVWXYZ[\\]^_"
AsciiHigh == "abcdefghijklmnopqrstuvwxyz{|}~"

\* String.fromCharCode(n) for n < 256: the character whose code is n
fromCharCode(n) ==
  IF n >= 32 /\ n <= 95 THEN At(AsciiLow, n - 31)
  ELSE IF n >= 97 /\ n <= 126 THEN At(AsciiHigh, n - 96)
  ELSE IF n = 10 THEN "\n"
  ELSE IF n = 13 THEN "\r"
  ELSE IF n = 9 THEN "\t"
  ELSE IF n = 195 THEN "Ã"
  ELSE IF n = 169 THEN "©"
  ELSE IF n = 226 THEN "â"
  ELSE IF n = 233 THEN "é"
  ELSE "¿"   \* the other control and Latin-1 characters, which no message of the model produces

\* .replace(/=\r?\n/g, ''): remove soft line breaks
RECURSIVE RemoveSoftBreaks(_)
RemoveSoftBreaks(t) ==
  IF t = "" THEN ""
  ELSE IF startsWith(t, "=\r\n") THEN RemoveSoftBreaks(SubSeq(t, 4, Len(t)))
  ELSE IF startsWith(t, "=\n") THEN RemoveSoftBreaks(SubSeq(t, 3, Len(t)))
  ELSE Head(t) \o RemoveSoftBreaks(Tail(t))

\* .replace(/=([0-9A-F]{2})/g, (m, hex) => String.fromCharCode(parseInt(hex, 16)))
RECURSIVE ReplaceHexEscapes(_)
ReplaceHexEscapes(t) ==
  IF t = "" THEN ""
  ELSE IF Len(t) >= 3 /\ Head(t) = "=" /\ IsHex(At(t, 2)) /\ IsHex(At(t, 3))
  THEN fromCharCode(16 * HexValue(At(t, 2)) + HexValue(At(t, 3)))
       \o ReplaceHexEscapes(SubSeq(t, 4, Len(t)))
  ELSE Head(t) \o ReplaceHexEscapes(Tail(t))

decodeQuotedPrintable(text) == ReplaceHexEscapes(RemoveSoftBreaks(text))

\* lines 95-98: the decoding is applied only when one of these two marks is present
NeedsQPDecoding(bodyText) == includes(bodyText, "=E2=80=") \/ includes(bodyText, "=\n")

\* lines 61-93: cut leaked headers off the front of the body
CleanBody(bodyText) ==
  IF bodyText # "" /\ includes(bodyText, "Received: by") /\ includes(bodyText, "DKIM-Signature:")
  THEN
    LET lines == split(bodyText, "\n")
        n     == Len(lines)
        IsStart(i) ==
          LET line == trim(lines[i])
          IN \/ startsWith(line, "--") /\ includes(line, "boundary")
             \/ i > 1 /\ trim(lines[i - 1]) = "" /\ Len(line) > 0 /\ ~includes(line, ":")
        IsEncoding(i) ==
          LET line == trim(lines[i])
          IN includes(line, "Content-Type: text/plain") \/ includes(line, "Content-Transfer-Encoding:")
        hits == {i \in 1..n : IsStart(i) \/ IsEncoding(i)}
    IN IF hits = {} THEN bodyText
       ELSE LET i == CHOOSE k \in hits : \A m \in hits : k <= m
                \* messageStartIndex, counted from 1
                start == IF IsStart(i) THEN i ELSE (IF i + 3 <= n THEN i + 3 ELSE n)
            IN IF start > 1 THEN trim(join(SubSeq(lines, start, n), "\n")) ELSE bodyText
  ELSE bodyText

\* lines 56-59 and 107: the stored subject
StoredSubject(parsed) ==
  trim(IF parsed.subject = <<>> \/ parsed.subject = <<"">> THEN "(No Subject)" ELSE parsed.subject[1])

\* lines 58-98 and 108: the stored plain-text body
StoredBodyText(parsed) ==
  LET cleaned == CleanBody(parsed.text)
  IN trim(IF NeedsQPDecoding(cleaned) THEN decodeQuotedPrintable(cleaned) ELSE cleaned)

\* line 104: the stored sender
StoredSender(parsed) ==
  IF parsed.from # <<>> /\ parsed.from[1].address # "" THEN parsed.from[1].address ELSE "unknown"

----------------------------------------------------------------------------
(* The store: tables temp_emails and emails (src/database/init.js), and the *)
(* clock read by new Date().                                                *)

\* a lookup that would ignore the address: SELECT * FROM temp_emails WHERE is_active = true
findByEmail_AnyAddress(emailAddress) ==
  LET hits == {r \in temp_emails : r.is_active}
  IN IF hits = {} THEN <<>> ELSE << CHOOSE r \in hits : TRUE >>

\* TempEmail.findByEmail: SELECT * FROM temp_emails WHERE email_address = $1 AND is_active = true
\* (email_address is UNIQUE); <<>> stands for undefined
findByEmail(emailAddress) ==
  LET hits == {r \in temp_emails : r.email_address = emailAddress /\ r.is_active}
  IN IF hits = {} THEN <<>> ELSE << CHOOSE r \in hits : TRUE >>

\* TempEmail.deactivate(id)
Deactivate(id) ==
  /\ \E r \in temp_emails : r.id = id /\ r.is_active
  /\ temp_emails' = {IF r.id = id THEN [r EXCEPT !.is_active = FALSE] ELSE r : r \in temp_emails}
  /\ UNCHANGED <<emails, emails_id_seq, now>>

\* time passes
Tick ==
  /\ now < MaxNow
  /\ now' = now + 1
  /\ UNCHANGED <<temp_emails, emails, emails_id_seq>>

----------------------------------------------------------------------------
(* EmailService.processIncomingEmail(rawEmail), one task per call.  The call *)
(* yields at its awaits: after the parse it queries the store (Resolve), the *)
(* continuation checks the row and its expiry (Gate), and Email.create       *)
(* inserts (Insert).  Fields present, live and replies record, for the       *)
(* properties, what held when the step ran; anyCase records whether, both   *)
(* when the store was queried and at the gate, a live row carried the       *)
(* recipient's address in some letter case.                                 *)

NewTask(c, raw, replies) ==
  [conn |-> c, raw |-> raw, replies |-> replies, pc |-> "start", rcpt |-> "",
   row |-> <<>>, queried |-> FALSE, present |-> FALSE, live |-> FALSE, anyCase |-> FALSE]

RemoveAt(seq, i) == SubSeq(seq, 1, i - 1) \o SubSeq(seq, i + 1, Len(seq))

\* what the caller (processSMTPEmail, processEmail, processEmailFromFile) gets back
Result(t, kind) ==
  [kind |-> kind, conn |-> t.conn, raw |-> t.raw, replies |-> t.replies, rcpt |-> t.rcpt,
   queried |-> t.queried, present |-> t.present, live |-> t.live, anyCase |-> t.anyCase]

\* the address has a row which is active and not yet expired: now < expires_at
IsLive(emailAddress) ==
  \E r \in temp_emails : r.email_address = emailAddress /\ r.is_active /\ now < r.expires_at

\* the address, compared without regard to letter case, has a row which is active and
\* not yet expired
IsLiveAnyCase(emailAddress) ==
  \E r \in temp_emails : /\ toLowerCase(r.email_address) = toLowerCase(emailAddress)
                         /\ r.is_active /\ now < r.expires_at

\* lines 12-42: parse, extract the recipient, throw when there is none, else query the store
Resolve(i) ==
  /\ tasks[i].pc = "start"
  /\ LET t    == tasks[i]
         rcpt == extractRecipientEmail(simpleParser(t.raw))
     IN IF rcpt = ""
        THEN /\ tasks' = RemoveAt(tasks, i)
             /\ lastResult' = << Result(t, "unroutable") >>
        ELSE /\ tasks' = [tasks EXCEPT ![i] =
                            [t EXCEPT !.pc = "gate", !.rcpt = rcpt, !.queried = TRUE,
                                      !.row = findByEmail(rcpt),
                                      !.present = \E r \in temp_emails : r.email_address = rcpt,
                                      !.anyCase = IsLiveAnyCase(rcpt)]]
             /\ lastResult' = <<>>
  /\ UNCHANGED <<temp_emails, emails, emails_id_seq, now>>

\* generateMessageId(): `${Date.now()}.${random}@tempmail.local`; the random part is
\* modelled by the number of the insert, which no other generated id carries
generateMessageId(t, serial) == ToString(t) \o "." \o ToString(serial) \o "@tempmail.local"

\* lines 100-113: the record handed to Email.create
EmailData(rawEmail, tempEmail, recipientEmail, generated) ==
  LET parsed == simpleParser(rawEmail)
  IN [temp_email_id   |-> tempEmail.id,
      message_id      |-> IF parsed.messageId \in {<<>>, <<"">>} THEN generated
                          ELSE parsed.messageId[1],
      sender_email    |-> StoredSender(parsed),
      recipient_email |-> recipientEmail,
      subject         |-> StoredSubject(parsed),
      body_text       |-> StoredBodyText(parsed)]

\* lines 38-48: no row, or new Date() > new Date(tempEmail.expires_at): return null
GateRejects(row, t) == row = <<>> \/ t > row[1].expires_at

Gate(i) ==
  /\ tasks[i].pc = "gate"
  /\ LET t == [tasks[i] EXCEPT !.live = IsLive(tasks[i].rcpt),
                               !.anyCase = @ /\ IsLiveAnyCase(tasks[i].rcpt)]
     IN IF GateRejects(t.row, now)
        THEN /\ tasks' = RemoveAt(tasks, i)
             /\ lastResult' = << Result(t, "null") >>
        ELSE /\ tasks' = [tasks EXCEPT ![i] = [t EXCEPT !.pc = "insert"]]
             /\ lastResult' = <<>>
  /\ UNCHANGED <<temp_emails, emails, emails_id_seq, now>>

\* an insert that keeps one message per address: the address's earlier rows go
Email_create_OnePerAddress(rows, row) ==
  SelectSeq(rows, LAMBDA e : e.data.temp_email_id # row.data.temp_email_id) \o <<row>>

\* the table after INSERT INTO emails ... of Email.create
Email_create(rows, row) == Append(rows, row)

\* Email.create: INSERT INTO emails ... RETURNING *.  The insert takes the next id
\* of the sequence, and fails (Email.create throws) when temp_email_id has no row in
\* temp_emails (REFERENCES) or message_id is already in the table (UNIQUE).
Insert(i) ==
  /\ tasks[i].pc = "insert"
  /\ LET t    == tasks[i]
         id   == emails_id_seq + 1
         data == EmailData(t.raw, t.row[1], t.rcpt, generateMessageId(now, id))
     IN /\ tasks' = RemoveAt(tasks, i)
        /\ emails_id_seq' = id
        /\ IF /\ \E r \in temp_emails : r.id = data.temp_email_id
              /\ \A k \in 1..Len(emails) : emails[k].data.message_id # data.message_id
           THEN /\ emails' = Email_create(emails, [id |-> id, data |-> data, is_read |-> FALSE,
                                                   task |-> Result(t, "saved")])
                /\ lastResult' = << Result(t, "saved") >>
           ELSE /\ emails' = emails
                /\ lastResult' = << Result(t, "error") >>
  /\ UNCHANGED <<temp_emails, now>>

----------------------------------------------------------------------------
(* Specification Spec: two connections to one SMTPHandler, any interleaving *)
(* of their chunks.  The hand-off is observed in `handed`; what the         *)
(* pipeline does with a message is specified separately (it never reports  *)
(* back to the session: processSMTPEmail catches and logs every outcome).   *)

Lines1 == { "HELO t", "MAIL FROM:<a@b.com>", "RCPT TO:<c@d.com>", "DATA",
            "Hello world", "helo again", "." }
Lines2 == { "MAIL FROM:<x@y.com>", "RCPT TO:<z@y.com>", "Secret" }

Chunks(c) ==
  IF c = 1 THEN {l \o CRLF : l \in Lines1} ELSE {l \o CRLF : l \in Lines2}

IdleSocket == [status |-> "idle", ended |-> FALSE, buffer |-> ""]

InitSession ==
  /\ currentState = "INIT"
  /\ currentMail = EmptyMail
  /\ sockets = [c \in Conns |-> IdleSocket]
  /\ written = <<>>
  /\ handed = <<>>
  /\ pat = NoPat
  /\ fin = <<>>

InitRest ==
  /\ feed = [c \in Conns |-> <<>>]
  /\ tasks = <<>>
  /\ temp_emails = {}
  /\ emails = <<>>
  /\ emails_id_seq = 0
  /\ now = 0
  /\ lastResult = <<>>
  /\ files = <<>>
  /\ buckets = {}
  /\ response = <<>>
  /\ temp_emails_id_seq = 0
  /\ calls = 0
  /\ InitService

restVars == <<feed, tasks, temp_emails, emails, emails_id_seq, now, lastResult, files,
             buckets, response, temp_emails_id_seq, calls, serviceVars>>

Init == InitSession /\ InitRest

\* the envelope and the buffers stay within the model's bounds
WithinBounds(mail, socks) ==
  /\ Len(mail.to) <= MaxRcpt
  /\ BodyLines(mail.data) <= MaxBody
  /\ \A c \in Conns : Len(socks[c].buffer) <= MaxBuf

Next ==
  \/ \E c \in Conns : Accept(c) /\ UNCHANGED restVars
  \/ \E c \in Conns : \E chunk \in Chunks(c) :
        OnData(c, chunk) /\ WithinBounds(currentMail', sockets') /\ UNCHANGED restVars
  \/ \E c \in Conns : OnClose(c) /\ UNCHANGED restVars

Spec == Init /\ [][Next]_vars

----------------------------------------------------------------------------
(* Specification SpecIngest: messages reach processIncomingEmail either from *)
(* one SMTP session on connection 1, whose lines are taken from a script, or *)
(* from the files of a directory (PostfixHandler.processEmailsFromDirectory).*)
(* The store holds one address, c@d.com, which expires at time 1.            *)

Registered ==
  [id |-> 1, email_address |-> "c@d.com", created_at |-> 0, expires_at |-> 1, is_active |-> TRUE]

S_Payload ==
  << "HELO t", "MAIL FROM:<a@b.com>", "RCPT TO:<c@d.com>", "DATA",
     "Subject: Hi", "", "Hello world", "." >>
S_Unregistered ==
  << "HELO t", "MAIL FROM:<a@b.com>", "RCPT TO:<e@f.com>", "DATA", "x", "." >>
S_NoBrackets ==
  << "HELO t", "MAIL FROM:<a@b.com>", "RCPT TO:c@d.com", "DATA", "x", ".",
     "MAIL FROM:<a@b.com>", "RCPT TO:<c@d.com>", "DATA", "after", "." >>
S_NoAddress ==
  << "HELO t", "MAIL FROM:<a@b.com>", "RCPT TO:<bob>", "DATA", "x", "." >>

Scripts == {S_Payload, S_Unregistered, S_NoBrackets, S_NoAddress}

F_Basic       == "From: a@b.com\r\nTo: c@d.com\r\nSubject:  Hi \r\n\r\nHello\r\n"
F_Escapes     == "From: Al <a@b.com>\r\nTo: C@D.com\r\n\r\nCaf=C3=A9\r\n"
F_SoftBreak   == "To: c@d.com\r\nSubject: s\r\n\r\nCaf=\r\n=C3=A9\r\n"
F_BlankWord   == "To: c@d.com\r\nSubject: =?UTF-8?Q?_?=\r\n\r\nx\r\n"
F_EnvelopeTo  == "Envelope-To: C@D.com\r\nDelivered-To: e@f.com\r\nSubject:\r\n\r\nx\r\n"
F_DeliveredTo == "To: bob\r\nDelivered-To: c@d.com\r\n\r\nx\r\n"
F_Unknown     == "From: a@b.com\r\nTo: e@f.com\r\n\r\nx\r\n"
F_NoRecipient == "From: a@b.com\r\nSubject: s\r\n\r\nx\r\n"
F_WithId      == "To: c@d.com\r\nMessage-ID: <m1@x>\r\n\r\none\r\n"
F_SameId      == "To: c@d.com\r\nMessage-ID: <m1@x>\r\n\r\ntwo\r\n"

\* the files of the directory, in the order readdirSync lists them
Directory ==
  << F_Basic, F_Escapes, F_SoftBreak, F_BlankWord, F_EnvelopeTo, F_DeliveredTo,
     F_Unknown, F_NoRecipient, F_WithId, F_SameId >>

Fixtures == {Directory[k] : k \in 1..Len(Directory)}

\* the directories with at most MaxFiles of these files
FileLists ==
  LET picks == UNION {[1..n -> 1..Len(Directory)] : n \in 1..MaxFiles}
      kept  == {f \in picks : \A a, b \in DOMAIN f : a < b => f[a] < f[b]}
  IN {[k \in DOMAIN f |-> Directory[f[k]]] : f \in kept}

InitIngest ==
  /\ InitSession
  /\ tasks = <<>>
  /\ temp_emails = {Registered}
  /\ emails = <<>>
  /\ emails_id_seq = 0
  /\ now = 0
  /\ lastResult = <<>>
  /\ buckets = {}
  /\ response = <<>>
  /\ temp_emails_id_seq = 1
  /\ calls = 0
  /\ InitService
  /\ \/ /\ feed \in {[c \in Conns |-> IF c = 1 THEN s ELSE <<>>] : s \in Scripts}
        /\ files = <<>>
     \/ /\ feed = [c \in Conns |-> <<>>]
        /\ files \in FileLists

\* the next line of the script arrives on connection c, in a segment of its own;
\* every processSMTPEmail call it causes starts a task
Deliver(c) ==
  /\ feed[c] # <<>>
  /\ OnData(c, Head(feed[c]) \o CRLF)
  /\ feed' = [feed EXCEPT ![c] = Tail(@)]
  /\ tasks' = tasks \o [i \in 1..Len(handed') |->
                          NewTask(c, handed'[i].raw, [k \in 1..Len(written') |-> written'[k].text])]
  /\ lastResult' = <<>>
  /\ UNCHANGED <<temp_emails, emails, emails_id_seq, now, files, apiVars, serviceVars>>

\* processEmailsFromDirectory: the next file, once the one before it is done
ReadFile ==
  /\ files # <<>>
  /\ \A i \in 1..Len(tasks) : tasks[i].conn # 0
  /\ tasks' = Append(tasks, NewTask(0, Head(files), <<>>))
  /\ files' = Tail(files)
  /\ lastResult' = <<>>
  /\ UNCHANGED <<sessionVars, feed, temp_emails, emails, emails_id_seq, now, apiVars, serviceVars>>

\* a hand-off that answers a failed call with an error reply on the session's socket
Quiet_ErrorReply ==
  /\ written' = IF /\ lastResult' # <<>>
                   /\ lastResult'[1].kind # "saved"
                   /\ lastResult'[1].conn \in Conns
                THEN << [conn |-> lastResult'[1].conn, text |-> "451 Processing failed\r\n"] >>
                ELSE <<>>
  /\ handed' = <<>>
  /\ fin' = <<>>
  /\ UNCHANGED <<currentState, currentMail, sockets, pat, feed, files, apiVars, serviceVars>>

\* a step of the pipeline writes to no socket
Quiet ==
  /\ written' = <<>>
  /\ handed' = <<>>
  /\ fin' = <<>>
  /\ UNCHANGED <<currentState, currentMail, sockets, pat, feed, files, apiVars, serviceVars>>

NextIngest ==
  \/ \E c \in Conns : feed[c] # <<>> /\ Accept(c) /\ UNCHANGED restVars
  \/ \E c \in Conns : Deliver(c)
  \/ ReadFile
  \/ \E i \in 1..Len(tasks) : Resolve(i) /\ Quiet
  \/ \E i \in 1..Len(tasks) : Gate(i) /\ Quiet
  \/ \E i \in 1..Len(tasks) : Insert(i) /\ Quiet
  \/ Tick /\ UNCHANGED <<sessionVars, feed, tasks, lastResult, files, apiVars, serviceVars>>
  \/ \E r \in temp_emails : Deactivate(r.id)
                            /\ UNCHANGED <<sessionVars, feed, tasks, lastResult, files, apiVars, serviceVars>>

SpecIngest == InitIngest /\ [][NextIngest]_vars

----------------------------------------------------------------------------
(* Reading a raw message as the claims do *)

\* the lines of the header block: everything before the first empty line
RawHeaderLines(raw) ==
  LET ls == split(raw, CRLF)
      k  == CHOOSE i \in 1..(Len(ls) + 1) :
              /\ (i = Len(ls) + 1 \/ ls[i] = "")
              /\ \A j \in 1..(i - 1) : ls[j] # ""
  IN SubSeq(ls, 1, k - 1)

\* the value of header `name` in the header block, "" when there is none
RawHeader(raw, name) ==
  LET hs   == RawHeaderLines(raw)
      hits == {i \in 1..Len(hs) : startsWith(hs[i], name \o ": ")}
  IN IF hits = {} THEN ""
     ELSE LET i == CHOOSE k \in hits : \A m \in hits : k <= m
          IN SubSeq(hs[i], Len(name) + 3, Len(hs[i]))

\* addresses are compared without regard to letter case
SameAddress(x, y) == toUpperCase(x) = toUpperCase(y)

----------------------------------------------------------------------------
(* C1: on one connection, every sequence HELO x; MAIL FROM:<a>; RCPT TO:<b>; *)
(* DATA; body lines other than "."; "." hands exactly one raw message to the *)
(* pipeline, whose From header carries a and whose To header carries b, and  *)
(* leaves the session in READY with an empty envelope.                       *)
C1_ValidSequenceHandsOffOneMessage ==
  \A i \in 1..Len(fin) :
    /\ Len(fin[i].msgs) = 1
    /\ SameAddress(RawHeader(fin[i].msgs[1], "From"), fin[i].a)
    /\ SameAddress(RawHeader(fin[i].msgs[1], "To"), fin[i].b)
    /\ fin[i].st = "READY"
    /\ fin[i].mail = EmptyMail

\* a sequence of that shape was completed and its message handed off
C1_SequenceCompleted == fin # <<>> /\ Len(fin[1].msgs) = 1

\* what connection c's peer sent as sender, recipient and body line (as the handler stores them)
ForeignText(c) ==
  IF c = 1 THEN {"X@Y.COM", "Z@Y.COM", "Secret"}
  ELSE {"A@B.COM", "C@D.COM", "Hello world"}

(* C6: the message handed off by one connection never contains a sender, a  *)
(* recipient or a body line that was sent on the other connection.           *)
C6_SessionIsolation ==
  \A i \in 1..Len(handed) :
    \A txt \in ForeignText(handed[i].conn) : ~includes(handed[i].raw, txt)

----------------------------------------------------------------------------
(* Properties of the ingestion pipeline, specification SpecIngest *)

\* the first entry of an address list as a reader of the header sees it: the
\* text between angle brackets, else the entry itself when it holds an "@", else ""
RefFirstAddress(value) ==
  LET entry == trim(IF includes(value, ",") THEN SubSeq(value, 1, indexOf(value, ",") - 1) ELSE value)
  IN IF includes(entry, "<") /\ includes(entry, ">") THEN extractEmail(entry)
     ELSE IF includes(entry, "@") THEN entry
     ELSE ""

\* the recipient by the order To, Envelope-To, Delivered-To; "" when none gives an address
RefRecipient(raw) ==
  LET fromTo == RefFirstAddress(RawHeader(raw, "To"))
  IN toLowerCase(IF fromTo # "" THEN fromTo
                 ELSE IF RawHeader(raw, "Envelope-To") # "" THEN RawHeader(raw, "Envelope-To")
                 ELSE RawHeader(raw, "Delivered-To"))

\* the replies to the terminating "." accept the message and report no error
Accepted(replies) ==
  /\ \E k \in 1..Len(replies) : replies[k] = "250 OK: Message accepted\r\n"
  /\ \A k \in 1..Len(replies) : ~startsWith(replies[k], "5")

\* the message handed off by the session of the scenario
IsPayloadMessage(raw) == endsWith(raw, "\r\n\r\nSubject: Hi\r\n\r\nHello world\r\n")

(* C2: the record persisted for the session HELO t; MAIL FROM:<a@b.com>;     *)
(* RCPT TO:<c@d.com>; DATA; "Subject: Hi"; ""; "Hello world"; "." has subject *)
(* "Hi", a body text containing "Hello world", sender a@b.com and recipient   *)
(* c@d.com.                                                                    *)
C2_PayloadHeadersAreHeaders ==
  \A i \in 1..Len(emails) :
    IsPayloadMessage(emails[i].task.raw) =>
      /\ emails[i].data.subject = "Hi"
      /\ includes(emails[i].data.body_text, "Hello world")
      /\ emails[i].data.sender_email = "a@b.com"
      /\ emails[i].data.recipient_email = "c@d.com"

(* C3: a message whose resolved recipient has no row in temp_emails is never *)
(* inserted; processIncomingEmail returns null for it, the "." that handed it *)
(* off was answered "250 OK: Message accepted" and with no 5xx, and the       *)
(* pipeline step that drops it writes nothing to the socket.                  *)
C3_AbsentRecipientNotPersisted ==
  /\ \A i \in 1..Len(emails) : emails[i].task.present
  /\ \A k \in 1..Len(lastResult) :
       (lastResult[k].queried /\ ~lastResult[k].present) =>
         /\ lastResult[k].kind = "null"
         /\ written = <<>>
         /\ (lastResult[k].conn # 0 => Accepted(lastResult[k].replies))

\* an SMTP message for an address without a row has been dropped
C3_AbsentRecipientDropped ==
  /\ lastResult # <<>>
  /\ lastResult[1].conn = 1
  /\ lastResult[1].rcpt = "e@f.com"
  /\ ~lastResult[1].present
  /\ lastResult[1].kind = "null"
  /\ emails = <<>>

(* C4: a message whose recipient has a row that is not live when the gate is *)
(* evaluated (inactive, or now >= expires_at) ends as the message of an       *)
(* absent recipient does: processIncomingEmail returns null, nothing is       *)
(* inserted and nothing is written to the socket.                             *)
C4_NotLiveSameAsAbsent ==
  \A k \in 1..Len(lastResult) :
    (lastResult[k].present /\ ~lastResult[k].live) =>
      (lastResult[k].kind = "null" /\ written = <<>>)

(* C5: every row of emails was inserted for a recipient that was live when   *)
(* the gate was evaluated: is_active and now < expires_at.                    *)
C5_PersistedOnlyForLive ==
  \A i \in 1..Len(emails) : emails[i].task.live

\* the code of a character, as charCodeAt gives it for the characters of the model's messages
charCode(ch) ==
  IF includes(AsciiLow, ch) THEN indexOf(AsciiLow, ch) + 31
  ELSE IF includes(AsciiHigh, ch) THEN indexOf(AsciiHigh, ch) + 96
  ELSE IF ch = "\n" THEN 10
  ELSE IF ch = "\r" THEN 13
  ELSE IF ch = "\t" THEN 9
  ELSE 63

\* quoted-printable by the rule of the claim: soft breaks removed, =XX the byte XX
RECURSIVE RefQPBytes(_)
RefQPBytes(t) ==
  IF t = "" THEN <<>>
  ELSE IF startsWith(t, "=\r\n") THEN RefQPBytes(SubSeq(t, 4, Len(t)))
  ELSE IF startsWith(t, "=\n") THEN RefQPBytes(SubSeq(t, 3, Len(t)))
  ELSE IF Len(t) >= 3 /\ Head(t) = "=" /\ IsHex(At(t, 2)) /\ IsHex(At(t, 3))
  THEN << 16 * HexValue(At(t, 2)) + HexValue(At(t, 3)) >> \o RefQPBytes(SubSeq(t, 4, Len(t)))
  ELSE << charCode(Head(t)) >> \o RefQPBytes(Tail(t))

\* bytes read as UTF-8 text: one-byte characters, and two-byte ones up to U+00FF
RECURSIVE Utf8Text(_)
Utf8Text(bytes) ==
  IF bytes = <<>> THEN ""
  ELSE IF bytes[1] < 128 THEN fromCharCode(bytes[1]) \o Utf8Text(Tail(bytes))
  ELSE IF /\ bytes[1] \in {194, 195}
          /\ Len(bytes) >= 2
          /\ bytes[2] \in 128..191
  THEN fromCharCode((bytes[1] - 192) * 64 + (bytes[2] - 128)) \o Utf8Text(SubSeq(bytes, 3, Len(bytes)))
  ELSE "?" \o Utf8Text(Tail(bytes))

\* the text holds a soft line break or an =XX escape
HasQuotedPrintable(t) ==
  \E i \in 1..Len(t) :
    /\ At(t, i) = "="
    /\ \/ i < Len(t) /\ At(t, i + 1) = "\n"
       \/ i + 1 < Len(t) /\ SubSeq(t, i + 1, i + 2) = "\r\n"
       \/ i + 1 < Len(t) /\ IsHex(At(t, i + 1)) /\ IsHex(At(t, i + 2))

(* C7: when the plain-text body holds a soft line break or an =XX escape,     *)
(* the stored body_text is the body with the soft breaks removed and every    *)
(* =XX replaced by the byte XX, the bytes read as text: "Caf=C3=A9" is stored *)
(* as "Café".                                                                 *)
C7_QuotedPrintableDecoded ==
  \A i \in 1..Len(emails) :
    LET body == simpleParser(emails[i].task.raw).text
    IN HasQuotedPrintable(body) =>
         emails[i].data.body_text = trim(Utf8Text(RefQPBytes(body)))

(* C8: the stored subject is "(No Subject)" when the message has no Subject  *)
(* or a blank one (empty or whitespace only), else the parsed subject         *)
(* trimmed; it is never the empty string.                                     *)
C8_SubjectDefault ==
  \A i \in 1..Len(emails) :
    LET subject == simpleParser(emails[i].task.raw).subject
    IN /\ emails[i].data.subject # ""
       /\ emails[i].data.subject =
            (IF subject = <<>> \/ trim(subject[1]) = "" THEN "(No Subject)" ELSE trim(subject[1]))

\* the first RCPT TO address of the session that handed the message off
EnvelopeFirst(raw) == trim(Head(split(RawHeader(raw, "To"), ",")))

C10_UnroutableDropped ==
  /\ \A k \in 1..Len(lastResult) :
       RefRecipient(lastResult[k].raw) = "" =>
         /\ lastResult[k].kind = "unroutable"
         /\ ~lastResult[k].queried
         /\ written = <<>>
         /\ lastResult[k].conn # 0 =>
              /\ Accepted(lastResult[k].replies)
              /\ sockets[lastResult[k].conn].status = "open"
              /\ ~sockets[lastResult[k].conn].ended
  /\ \A i \in 1..Len(emails) : RefRecipient(emails[i].task.raw) # ""
  /\ \A k \in 1..Len(handed) :
       RefRecipient(handed[k].raw) = "" =>
         /\ currentState = "READY"
         /\ currentMail = EmptyMail
         /\ sockets[handed[k].conn].status = "open"
         /\ ~sockets[handed[k].conn].ended

\* the message of RCPT TO:c@d.com was dropped, and the transaction that followed
\* it on the same connection was persisted
C10_FurtherTransaction ==
  /\ lastResult # <<>>
  /\ lastResult[1].kind = "unroutable"
  /\ lastResult[1].conn = 1
  /\ \E i \in 1..Len(emails) : emails[i].data.body_text = "after"

----------------------------------------------------------------------------
(* Sessions and their hand-offs *)

\* the number of processIncomingEmail calls of connection c that are in flight
InFlight(c) == Cardinality({i \in 1..Len(tasks) : tasks[i].conn = c})

(* C12: on one connection no command line is processed while a hand-off of   *)
(* that connection is in flight: when a line has just been handled (it was    *)
(* replied to), the only calls of that connection in flight are the ones this *)
(* very line started.                                                         *)
C12_NoCommandDuringHandOff ==
  \A k \in 1..Len(written) : InFlight(written[k].conn) <= Len(handed)

(* C13: what a session had buffered when its connection closed (envelope     *)
(* sender, recipients, DATA body) is never part of a message handed to the    *)
(* pipeline later on another connection.                                      *)
C13_ClosedSessionDiscarded ==
  \A i \in 1..Len(handed) :
    \A d \in Conns \ {handed[i].conn} :
      sockets[d].status = "closed" =>
        \A txt \in ForeignText(handed[i].conn) : ~includes(handed[i].raw, txt)

(* C14: every message whose recipient is live when the gate is evaluated is   *)
(* persisted: its processIncomingEmail call returns the saved row, which is   *)
(* the newest row of emails, carries the id the insert returned and           *)
(* references the row of temp_emails that holds the recipient; also when an   *)
(* earlier delivery carried the same Message-Id.                              *)
C14_LiveMessagePersistedOnce ==
  \A k \in 1..Len(lastResult) :
    lastResult[k].live =>
      /\ lastResult[k].kind = "saved"
      /\ emails # <<>>
      /\ emails[Len(emails)].task = lastResult[k]
      /\ emails[Len(emails)].id = emails_id_seq
      /\ \E r \in temp_emails :
           /\ r.email_address = lastResult[k].rcpt
           /\ r.id = emails[Len(emails)].data.temp_email_id
----------------------------------------------------------------------------
(* The HTTP API over the store: the routes of routes/tempEmailRoutes.js,    *)
(* each behind the rateLimiter middleware, and the cleanup run.  One tick   *)
(* of the clock is 15 minutes.  A request is handled in one step.           *)

\* one hour in ticks of the clock (TempEmail.create: hoursToExpire * 60 * 60 * 1000)
TicksPerHour == 4

\* rateLimiter: points, and duration (900 s) in ticks
RATE_LIMIT_MAX_REQUESTS == 100
RATE_LIMIT_WINDOW == 1

\* process.env.EMAIL_DOMAIN
EMAIL_DOMAIN == "d.com"

\* RateLimiterMemory: the record of a key, while its window has not ended
Bucket(key) == {b \in buckets : b.key = key /\ now < b.expire}

consumedPoints(key) ==
  IF Bucket(key) = {} THEN 0 ELSE (CHOOSE b \in Bucket(key) : TRUE).consumed

\* rateLimiter.consume(key): one more point in the key's window, a new window when none is open
consume(key) ==
  LET rec == IF Bucket(key) = {}
             THEN [key |-> key, consumed |-> 1, expire |-> now + RATE_LIMIT_WINDOW]
             ELSE [(CHOOSE b \in Bucket(key) : TRUE) EXCEPT !.consumed = @ + 1]
  IN {b \in buckets : b.key # key} \cup {rec}

\* consume rejects when the points consumed exceed the limiter's points
Rejected(key) == consumedPoints(key) + 1 > RATE_LIMIT_MAX_REQUESTS

\* rateLimiterMiddleware's answer to a rejected request: 429, Retry-After in seconds
TooManyRequests(route, key) ==
  [route |-> route, status |-> 429,
   retryAfter |-> ((CHOOSE b \in Bucket(key) : TRUE).expire - now) * 900]

\* TempEmail.create(emailAddress, hoursToExpire): the row the INSERT returns
TempEmail_create(emailAddress, hoursToExpire) ==
  [id |-> temp_emails_id_seq + 1, email_address |-> emailAddress, created_at |-> now,
   expires_at |-> now + hoursToExpire * TicksPerHour, is_active |-> TRUE]

\* TempEmail.extendExpiry(id, additionalHours): the table after the UPDATE
extendExpiry(id, additionalHours) ==
  {IF r.id = id THEN [r EXCEPT !.expires_at = now + additionalHours * TicksPerHour] ELSE r :
     r \in temp_emails}

\* POST /generate.  randomEmail is what TempEmail.generateRandomEmail returns: an address
\* of the domain that findByEmail does not find.  The INSERT takes the next id of the
\* sequence, and fails when email_address is already in the table (UNIQUE).
Generate(ip, customAddress, expiryHours, randomEmail) ==
  /\ buckets' = consume(ip)
  /\ IF Rejected(ip)
     THEN /\ response' = TooManyRequests("generate", ip)
          /\ UNCHANGED <<temp_emails, temp_emails_id_seq>>
     ELSE IF customAddress # "" /\ ~endsWith(customAddress, "@" \o EMAIL_DOMAIN)
     THEN /\ response' = [route |-> "generate", status |-> 400]
          /\ UNCHANGED <<temp_emails, temp_emails_id_seq>>
     ELSE IF customAddress # "" /\ findByEmail(customAddress) # <<>>
     THEN /\ response' = [route |-> "generate", status |-> 409]
          /\ UNCHANGED <<temp_emails, temp_emails_id_seq>>
     ELSE LET emailAddress == IF customAddress # "" THEN customAddress ELSE randomEmail
              tempEmail    == TempEmail_create(emailAddress, expiryHours)
          IN /\ temp_emails_id_seq' = tempEmail.id
             /\ IF \E r \in temp_emails : r.email_address = emailAddress
                THEN /\ response' = [route |-> "generate", status |-> 500]
                     /\ UNCHANGED temp_emails
                ELSE /\ response' = [route |-> "generate", status |-> 200,
                                     email |-> tempEmail.email_address,
                                     expiresAt |-> tempEmail.expires_at,
                                     createdAt |-> tempEmail.created_at]
                     /\ temp_emails' = temp_emails \cup {tempEmail}
  /\ UNCHANGED <<emails, emails_id_seq, now>>

\* PUT /:email/extend; field previous of the response records, for the properties,
\* the expiry the row had before the call
Extend(ip, email, hours) ==
  /\ buckets' = consume(ip)
  /\ IF Rejected(ip)
     THEN /\ response' = TooManyRequests("extend", ip)
          /\ UNCHANGED temp_emails
     ELSE IF hours < 1 \/ hours > 168
     THEN /\ response' = [route |-> "extend", status |-> 400]
          /\ UNCHANGED temp_emails
     ELSE IF findByEmail(email) = <<>>
     THEN /\ response' = [route |-> "extend", status |-> 404]
          /\ UNCHANGED temp_emails
     ELSE LET tempEmail == findByEmail(email)[1]
          IN /\ temp_emails' = extendExpiry(tempEmail.id, hours)
             /\ response' = [route |-> "extend", status |-> 200, email |-> tempEmail.email_address,
                             hours |-> hours, previous |-> tempEmail.expires_at,
                             expiresAt |-> now + hours * TicksPerHour]
  /\ UNCHANGED <<emails, emails_id_seq, now, temp_emails_id_seq>>

\* GET /:email/emails: the address's emails (their ids stand for the rows), newest first
GetEmails(ip, email) ==
  /\ buckets' = consume(ip)
  /\ IF Rejected(ip)
     THEN response' = TooManyRequests("getEmails", ip)
     ELSE IF findByEmail(email) = <<>>
     THEN response' = [route |-> "getEmails", status |-> 404]
     ELSE IF now > findByEmail(email)[1].expires_at
     THEN response' = [route |-> "getEmails", status |-> 410]
     ELSE LET tempEmail == findByEmail(email)[1]
              rows == SelectSeq(emails, LAMBDA e : e.data.temp_email_id = tempEmail.id)
          IN response' = [route |-> "getEmails", status |-> 200,
                          emails |-> [k \in 1..Len(rows) |-> rows[Len(rows) + 1 - k].id],
                          email |-> tempEmail.email_address,
                          expiresAt |-> tempEmail.expires_at]
  /\ UNCHANGED <<temp_emails, emails, emails_id_seq, now, temp_emails_id_seq>>

\* DELETE /:email/emails/:emailId
DeleteEmail(ip, email, emailId) ==
  /\ buckets' = consume(ip)
  /\ IF Rejected(ip)
     THEN /\ response' = TooManyRequests("deleteEmail", ip)
          /\ UNCHANGED emails
     ELSE IF \/ findByEmail(email) = <<>>
             \/ ~\E k \in 1..Len(emails) :
                   emails[k].id = emailId /\ emails[k].data.temp_email_id = findByEmail(email)[1].id
     THEN /\ response' = [route |-> "deleteEmail", status |-> 404]
          /\ UNCHANGED emails
     ELSE /\ emails' = SelectSeq(emails, LAMBDA e : e.id # emailId)
          /\ response' = [route |-> "deleteEmail", status |-> 200]
  /\ UNCHANGED <<temp_emails, emails_id_seq, now, temp_emails_id_seq>>

\* DELETE /:email/emails
DeleteAll(ip, email) ==
  /\ buckets' = consume(ip)
  /\ IF Rejected(ip)
     THEN /\ response' = TooManyRequests("deleteAll", ip)
          /\ UNCHANGED emails
     ELSE IF findByEmail(email) = <<>>
     THEN /\ response' = [route |-> "deleteAll", status |-> 404]
          /\ UNCHANGED emails
     ELSE /\ emails' = SelectSeq(emails, LAMBDA e : e.data.temp_email_id # findByEmail(email)[1].id)
          /\ response' = [route |-> "deleteAll", status |-> 200]
  /\ UNCHANGED <<temp_emails, emails_id_seq, now, temp_emails_id_seq>>

\* a cleanup run that gets past its first statement: TempEmail.cleanup() deletes the
\* rows WHERE expires_at < NOW() OR is_active = false, and with each row its emails
\* (ON DELETE CASCADE)
cleanupExpiredEmails_Completes ==
  LET kept == {r \in temp_emails : ~(r.expires_at < now \/ ~r.is_active)}
  IN /\ temp_emails' = kept
     /\ emails' = SelectSeq(emails, LAMBDA e : \E r \in kept : r.id = e.data.temp_email_id)
     /\ response' = [route |-> "cleanup", status |-> 200,
                     deletedTempEmails |-> Cardinality(temp_emails \ kept)]
     /\ UNCHANGED <<emails_id_seq, now, buckets, temp_emails_id_seq>>

\* EmailService.cleanupExpiredEmails, run by the scheduler's job and by POST
\* /api/admin/cleanup (no rate limiter).  Its first statement calls Email.cleanup, which
\* class Email does not define: the call throws, the catch rethrows, TempEmail.cleanup()
\* is not reached, and the manual run answers 500.
cleanupExpiredEmails ==
  /\ response' = [route |-> "cleanup", status |-> 500]
  /\ UNCHANGED <<temp_emails, emails, emails_id_seq, now, buckets, temp_emails_id_seq>>

----------------------------------------------------------------------------
(* Specification SpecApi: the API serves one client while a file is        *)
(* ingested.  The store starts with c@d.com, which expires at time 1.       *)

MaxRequests == 2

IPs == {"ip1"}
CustomAddresses == {"", "G@d.com", "g@d.com", "g@x.org"}
Hours == {1, 2}
UrlEmails == {"c@d.com", "G@d.com", "n@d.com"}
RandomEmails == {"r1@" \o EMAIL_DOMAIN}

F_Custom == "To: G@d.com\r\n\r\nx\r\n"

InitApi ==
  /\ InitSession
  /\ feed = [c \in Conns |-> <<>>]
  /\ tasks = <<>>
  /\ temp_emails = {Registered}
  /\ temp_emails_id_seq = 1
  /\ emails = <<>>
  /\ emails_id_seq = 0
  /\ now = 0
  /\ lastResult = <<>>
  /\ files \in {<<F_Basic>>, <<F_Custom>>}
  /\ buckets = {}
  /\ response = <<>>
  /\ calls = MaxRequests
  /\ InitService

\* an API request changes nothing of the mail path
ApiFrame == UNCHANGED <<sessionVars, feed, tasks, lastResult, files, serviceVars>>

\* a client sends one of the requests still to come
Request ==
  /\ calls > 0
  /\ calls' = calls - 1

NextApi ==
  \/ ReadFile
  \/ \E i \in 1..Len(tasks) : Resolve(i) /\ Quiet
  \/ \E i \in 1..Len(tasks) : Gate(i) /\ Quiet
  \/ \E i \in 1..Len(tasks) : Insert(i) /\ Quiet
  \/ Tick /\ UNCHANGED <<sessionVars, feed, tasks, lastResult, files, apiVars, serviceVars>>
  \/ \E ip \in IPs, customAddress \in CustomAddresses, expiryHours \in Hours,
        randomEmail \in RandomEmails :
        /\ Request
        /\ findByEmail(randomEmail) = <<>>
        /\ Generate(ip, customAddress, expiryHours, randomEmail)
        /\ ApiFrame
  \/ \E ip \in IPs, email \in UrlEmails, hours \in Hours :
        Request /\ Extend(ip, email, hours) /\ ApiFrame
  \/ \E ip \in IPs, email \in UrlEmails, emailId \in 1..2 :
        Request /\ DeleteEmail(ip, email, emailId) /\ ApiFrame
  \/ \E ip \in IPs, email \in UrlEmails :
        Request /\ DeleteAll(ip, email) /\ ApiFrame
  \/ \E ip \in IPs, email \in UrlEmails :
        Request /\ GetEmails(ip, email) /\ ApiFrame
  \/ cleanupExpiredEmails /\ ApiFrame /\ UNCHANGED calls

SpecApi == InitApi /\ [][NextApi]_vars

(* C15: address matching is case-insensitive.  A message whose recipient has, *)
(* in some letter case, a live row while it is processed is saved; and no two *)
(* rows of temp_emails carry addresses that differ only in letter case.       *)
C15_CaseInsensitiveMatching ==
  /\ \A k \in 1..Len(lastResult) : lastResult[k].anyCase => lastResult[k].kind = "saved"
  /\ \A r1, r2 \in temp_emails :
        toLowerCase(r1.email_address) = toLowerCase(r2.email_address) => r1 = r2

\* a step of a processIncomingEmail call: a task advances or ends, none starts
IsPipelineStep == tasks' # tasks /\ Len(tasks') <= Len(tasks)

(* C16: processing an inbound message, whatever its outcome, leaves every    *)
(* address record and every previously persisted message as it was, deletes  *)
(* nothing, and adds at most one message record, in the step that ends the   *)
(* call.                                                                     *)
C16_IngestionFrame ==
  [][ IsPipelineStep =>
        /\ temp_emails' = temp_emails
        /\ Len(emails') >= Len(emails)
        /\ SubSeq(emails', 1, Len(emails)) = emails
        /\ Len(emails') <= Len(emails) + 1
        /\ (Len(emails') > Len(emails) => Len(tasks') < Len(tasks)) ]_vars

\* a message has been saved while an earlier message was in the table
C16_SavedNextToEarlier ==
  /\ Len(emails) = 2
  /\ lastResult = << emails[2].task >>

\* the step ends a processIncomingEmail call without a persisted record: the message
\* was unroutable, its address had no live row, or the call threw
HandOffFails ==
  /\ IsPipelineStep
  /\ lastResult' # <<>>
  /\ lastResult'[1].kind \in {"unroutable", "null", "error"}

C18_ExtendAddsHours ==
  (response # <<>> /\ response.route = "extend" /\ response.status = 200) =>
     /\ response.expiresAt = response.previous + response.hours * TicksPerHour
     /\ response.expiresAt >= response.previous
     /\ \E r \in temp_emails : r.email_address = response.email
                               /\ r.expires_at = response.expiresAt

----------------------------------------------------------------------------
(* Specification SpecRate: one client sends POST /generate requests, each   *)
(* for a random address, while time passes.  The store starts empty.        *)

MaxGenerate == 12

\* createTempEmailSchema: expiryHours when the request names none
DefaultExpiryHours == 24

\* the address generateRandomEmail returns for the n-th row: one no row carries
RandomEmail(n) == "r" \o ToString(n) \o "@" \o EMAIL_DOMAIN

InitRate ==
  /\ InitSession
  /\ feed = [c \in Conns |-> <<>>]
  /\ tasks = <<>>
  /\ temp_emails = {}
  /\ temp_emails_id_seq = 0
  /\ emails = <<>>
  /\ emails_id_seq = 0
  /\ now = 0
  /\ lastResult = <<>>
  /\ files = <<>>
  /\ buckets = {}
  /\ response = <<>>
  /\ calls = MaxGenerate
  /\ InitService

NextRate ==
  \/ \E ip \in IPs :
        /\ Request
        /\ Generate(ip, "", DefaultExpiryHours, RandomEmail(temp_emails_id_seq + 1))
        /\ ApiFrame
  \/ Tick /\ UNCHANGED <<sessionVars, feed, tasks, lastResult, files, apiVars, serviceVars>>

SpecRate == InitRate /\ [][NextRate]_vars

\* emailGenerationLimiter: points, and duration (3600 s) in ticks
GENERATION_LIMIT == 10
GENERATION_WINDOW == 4

(* C19: address generation has a stricter limit of its own: the requests of  *)
(* one client that POST /generate served within one hour, each of which      *)
(* created a row, number at most 10.                                         *)
C19_GenerationLimit ==
  \A t \in 0..now :
    Cardinality({r \in temp_emails : t <= r.created_at /\ r.created_at < t + GENERATION_WINDOW})
      <= GENERATION_LIMIT

\* the step removes a row of table emails
RemovesAnEmail ==
  \E k \in 1..Len(emails) : \A j \in 1..Len(emails') : emails'[j] # emails[k]

----------------------------------------------------------------------------
(* Specification SpecSession: one client on connection 1 sends any lines of *)
(* SessionLines, one line per read, or a QUIT and another line in one read. *)

SessionLines ==
  { "HELO t", "MAIL FROM:<a@b.com>", "RCPT TO:<c@d.com>", "DATA", "RSET", "QUIT", ".",
    "Hi", "data", "mail from:x", " quit", "rset " }

AfterQuit == { "DATA", "MAIL FROM:<a@b.com>" }

SessionChunks ==
  {l \o CRLF : l \in SessionLines} \cup {"QUIT" \o CRLF \o l \o CRLF : l \in AfterQuit}

NextSession ==
  \/ Accept(1) /\ UNCHANGED restVars
  \/ \E chunk \in SessionChunks : OnData(1, chunk) /\ WithinBounds(currentMail', sockets') /\ UNCHANGED restVars
  \/ OnClose(1) /\ UNCHANGED restVars

SpecSession == Init /\ [][NextSession]_vars

\* the step is a cleanup run: it answers as one, and is no request of a client, no
\* step of the mail path and no passing of time
IsCleanupRun ==
  /\ response' # <<>>
  /\ response'.route = "cleanup"
  /\ UNCHANGED <<calls, now, tasks>>

(* C21: a cleanup run completes successfully; after it no row of temp_emails *)
(* has expires_at earlier than the time of the run or is_active false, and   *)
(* the run reports the number of rows it deleted.                            *)
C21_CleanupRemovesExpired ==
  [][ IsCleanupRun =>
        /\ response'.status = 200
        /\ \A r \in temp_emails' : r.is_active /\ ~(r.expires_at < now)
        /\ response'.deletedTempEmails = Cardinality(temp_emails) - Cardinality(temp_emails') ]_vars

\* the answer GET /:email/emails owes for an address: 404 without an active row of that
\* address, 410 when the row is no longer live (not now < expires_at), else 200
OwedStatus(email) ==
  LET hits == {r \in temp_emails : r.email_address = email /\ r.is_active}
  IN IF hits = {} THEN 404
     ELSE IF \E r \in hits : now < r.expires_at THEN 200
     ELSE 410

(* C22: GET /:email/emails answers 404 when no active row matches, 410 when  *)
(* the row has expired and 200 otherwise; a 404 or 410 answer carries no     *)
(* email; the request changes neither table.                                 *)
C22_GetEmailsStatus ==
  [][ \A ip \in IPs, email \in UrlEmails :
        (Request /\ GetEmails(ip, email)) =>
           /\ response'.status = OwedStatus(email)
           /\ (response'.status \in {404, 410} => "emails" \notin DOMAIN response')
           /\ UNCHANGED <<temp_emails, emails>> ]_vars

----------------------------------------------------------------------------
(* Reading a step of a session as the claims do.  The states of the spec are *)
(* the values of currentState: Ready "READY", HaveSender "MAIL",             *)
(* HaveRecipient "RCPT", ReceivingData "DATA".                               *)

\* the step is the arrival of the one line `line` on connection 1, in a read of its own
Receives(line) == sockets[1].buffer = "" /\ OnData(1, line \o CRLF)

\* the replies the step wrote, in order
Replies == [k \in 1..Len(written') |-> written'[k].text]

(* C23: DATA is accepted only in HaveRecipient.  In Ready and HaveSender a   *)
(* DATA line gets no 354 reply, leaves the buffer as it is and does not      *)
(* enter ReceivingData; in ReceivingData it is a body line; and no message   *)
(* is handed off while the recipient list is empty.                          *)
C23_DataOnlyAfterRecipient ==
  [][ /\ (Receives("DATA") /\ currentState # "RCPT") =>
            /\ \A k \in 1..Len(Replies) : ~startsWith(Replies[k], "354")
            /\ currentMail'.data =
                 (IF currentState = "DATA" THEN currentMail.data \o "DATA" \o CRLF
                  ELSE currentMail.data)
            /\ currentState' = "DATA" => currentState = "DATA"
      /\ (Receives(".") /\ handed' # <<>>) => currentMail.to # <<>> ]_vars

(* C24: RCPT TO is accepted only in HaveSender or HaveRecipient, MAIL FROM   *)
(* only outside ReceivingData.  A RCPT TO received in Ready appends no       *)
(* recipient and does not enter HaveRecipient; a MAIL FROM or RCPT TO        *)
(* received in ReceivingData changes neither the sender nor the recipients   *)
(* and leaves the session in ReceivingData.                                  *)
C24_EnvelopeCommandsByState ==
  [][ /\ (Receives("RCPT TO:<c@d.com>") /\ currentState = "READY") =>
            /\ currentMail'.to = currentMail.to
            /\ currentState' # "RCPT"
      /\ \A line \in {"MAIL FROM:<a@b.com>", "RCPT TO:<c@d.com>", "mail from:x"} :
            (Receives(line) /\ currentState = "DATA") =>
               /\ currentMail'.from = currentMail.from
               /\ currentMail'.to = currentMail.to
               /\ currentState' = "DATA" ]_vars

(* C25: HELO in any state of a session that has not QUIT resets the envelope *)
(* (sender empty, no recipients), moves the session to Ready and is answered *)
(* "250 tempmail.local Hello"; so nothing of the envelope set before the     *)
(* HELO is in a message handed off after it.                                 *)
C25_HeloResetsEnvelope ==
  [][ (Receives("HELO t") /\ ~sockets[1].ended) =>
        /\ currentMail'.from = ""
        /\ currentMail'.to = <<>>
        /\ currentState' = "READY"
        /\ Replies = << "250 tempmail.local Hello\r\n" >> ]_vars

\* the statement with ReceivingData included
C26_RsetClearsEnvelope ==
  [][ (Receives("RSET") /\ ~sockets[1].ended) =>
        /\ currentMail' = EmptyMail
        /\ currentState' = "READY"
        /\ Replies = << "250 OK\r\n" >> ]_vars

(* C26: RSET in Ready, HaveSender or HaveRecipient of a session that has not *)
(* QUIT clears the envelope (sender, recipients and data buffer empty),      *)
(* moves the session to Ready and is answered "250 OK"; in ReceivingData it  *)
(* is a body line: appended to the buffer, unanswered, and the session stays *)
(* in ReceivingData.                                                         *)
C26_RsetOutsideReceivingData ==
  [][ (Receives("RSET") /\ ~sockets[1].ended) =>
        IF currentState = "DATA"
        THEN /\ currentMail' = [currentMail EXCEPT !.data = @ \o "RSET" \o CRLF]
             /\ currentState' = "DATA"
             /\ Replies = <<>>
        ELSE /\ currentMail' = EmptyMail
             /\ currentState' = "READY"
             /\ Replies = << "250 OK\r\n" >> ]_vars

\* an RSET has just been answered: the session is in Ready with an empty envelope
C26_RsetAnswered ==
  /\ written = << [conn |-> 1, text |-> "250 OK\r\n"] >>
  /\ currentState = "READY"
  /\ currentMail = EmptyMail

(* C27: QUIT is answered with '221 Bye' and ends the session: the socket is  *)
(* closed, and no line after the QUIT, in the same read or in a later one,   *)
(* is processed: none draws a reply, none changes the envelope, none hands a *)
(* message off.                                                              *)
C27_QuitEndsSession ==
  [][ \A chunk \in SessionChunks :
        (sockets[1].buffer = "" /\ OnData(1, chunk)) =>
          /\ (~sockets[1].ended /\ startsWith(chunk, "QUIT" \o CRLF)) =>
                /\ Replies = <<"221 Bye\r\n">>
                /\ sockets'[1].ended
                /\ handed' = <<>>
                /\ currentMail' = currentMail
          /\ sockets[1].ended =>
                /\ written' = <<>>
                /\ handed' = <<>>
                /\ currentMail' = currentMail ]_vars

(* C28: in ReceivingData every received line other than "." is appended to   *)
(* the data buffer exactly as received, followed by CRLF; it draws no reply  *)
(* and the session stays in ReceivingData. This holds for lines that read    *)
(* like commands too ("DATA", "HELO ...", "MAIL FROM:...", in any case).     *)
C28_BodyLinesAppendedVerbatim ==
  [][ \A line \in SessionLines \ {"."} :
        (currentState = "DATA" /\ Receives(line)) =>
          /\ currentMail'.data = currentMail.data \o line \o CRLF
          /\ currentMail'.from = currentMail.from
          /\ currentMail'.to = currentMail.to
          /\ currentState' = "DATA"
          /\ written' = <<>>
          /\ handed' = <<>> ]_vars

\* the line, trimmed, begins with one of the verbs in some letter case
IsVerbLine(line) ==
  LET u == toUpperCase(trim(line))
  IN \/ startsWith(u, "HELO") \/ startsWith(u, "EHLO")
     \/ startsWith(u, "MAIL FROM:") \/ startsWith(u, "RCPT TO:")
     \/ u \in {"DATA", "RSET", "QUIT"}

(* C29: verbs are matched without regard to letter case and after trimming:  *)
(* outside ReceivingData a verb line in any case, with spaces before or      *)
(* after it, has the effect and the reply of its trimmed upper-case spelling.*)
C29_VerbsCaseAndSpaceInsensitive ==
  [][ \A line \in SessionLines :
        (IsVerbLine(line) /\ currentState # "DATA" /\ Receives(line)) =>
          LET canonical == handleSMTPCommand(
                             Sess(currentState, currentMail, <<>>, <<>>, sockets[1].ended),
                             toUpperCase(trim(line)), now)
          IN /\ currentState' = canonical.st
             /\ currentMail' = canonical.mail
             /\ Replies = canonical.out
             /\ sockets'[1].ended = canonical.ended ]_vars

(* C30: the address stored by MAIL FROM or RCPT TO is the text between the   *)
(* first "<" and the next ">" of the line exactly as it was received, in the *)
(* same letter case, and is empty when the line has no non-empty <...> pair. *)
C30_AddressStoredAsReceived ==
  [][ \A line \in SessionLines :
        /\ (Receives(line) /\ startsWith(toUpperCase(line), "MAIL FROM:")) =>
              currentMail'.from = extractEmail(line)
        /\ (Receives(line) /\ startsWith(toUpperCase(line), "RCPT TO:")) =>
              currentMail'.to = Append(currentMail.to, extractEmail(line)) ]_vars

----------------------------------------------------------------------------
(* Specification SpecStream: one connection whose input is a stream of bytes *)
(* that arrives in reads of any length. Each read is a Buffer; the "data"    *)
(* handler turns it into text with data.toString() before it is appended to *)
(* the line buffer.                                                          *)

\* U+FFFD, which the decoder puts in the place of a byte it cannot decode
ReplacementCharacter == "�"

\* Buffer.prototype.toString() (UTF-8) of one read: one-byte characters, two-byte
\* characters up to U+00FF; every byte that is not part of a complete character
\* of the read decodes to U+FFFD
RECURSIVE toString(_)
toString(bytes) ==
  IF bytes = <<>> THEN ""
  ELSE IF bytes[1] < 128 THEN fromCharCode(bytes[1]) \o toString(Tail(bytes))
  ELSE IF /\ bytes[1] \in {194, 195}
          /\ Len(bytes) >= 2
          /\ bytes[2] \in 128..191
  THEN fromCharCode((bytes[1] - 192) * 64 + (bytes[2] - 128))
       \o toString(SubSeq(bytes, 3, Len(bytes)))
  ELSE ReplacementCharacter \o toString(Tail(bytes))

\* the bytes of a text of one-byte characters
Ascii(text) == [i \in 1..Len(text) |-> charCode(At(text, i))]

\* the two bytes of U+00E9
EAcute == <<195, 169>>

Streams ==
  { Ascii("DATA\r\nCaf") \o EAcute \o Ascii("\r\n.\r\n"),
    Ascii("HELO t\r\nMAIL FROM:<a@b.com>\r\n"),
    Ascii("RCPT TO:<c@d.com>\r\nDATA\r\nHi\r\n.\r\n"),
    Ascii("DATA\r\n\r\r\n.\r\nQUIT\r\nRSET\r\n"),
    Ascii("data\r\nA\rB\nC\r\n.\r\n") }

InitStream ==
  /\ InitSession
  /\ feed \in {[c \in Conns |-> IF c = 1 THEN s ELSE <<>>] : s \in Streams}
  /\ tasks = <<>>
  /\ temp_emails = {}
  /\ emails = <<>>
  /\ emails_id_seq = 0
  /\ now = 0
  /\ lastResult = <<>>
  /\ files = <<>>
  /\ buckets = {}
  /\ response = <<>>
  /\ temp_emails_id_seq = 0
  /\ calls = 0
  /\ InitService

\* one "data" event: the next n bytes of the stream
Read(n) ==
  /\ n \in 1..Len(feed[1])
  /\ OnData(1, toString(SubSeq(feed[1], 1, n)))
  /\ feed' = [feed EXCEPT ![1] = SubSeq(@, n + 1, Len(@))]
  /\ UNCHANGED <<tasks, temp_emails, emails, emails_id_seq, now, lastResult, files, apiVars, serviceVars>>

NextStream ==
  \/ Accept(1) /\ UNCHANGED restVars
  \/ \E n \in 1..Len(feed[1]) : Read(n)
  \/ feed[1] = <<>> /\ OnClose(1) /\ UNCHANGED restVars

SpecStream == InitStream /\ [][NextStream]_vars

\* the bytes the step has read
BytesRead == SubSeq(feed[1], 1, Len(feed[1]) - Len(feed'[1]))

\* the same bytes arriving in two reads, the first of j bytes
InTwoReads(j) ==
  LET first  == DataEvent(Sess(currentState, currentMail, <<>>, <<>>, sockets[1].ended),
                          pat, sockets[1].buffer, toString(SubSeq(BytesRead, 1, j)), 1, now)
  IN DataEvent(first.s, first.p, first.buffer,
               toString(SubSeq(BytesRead, j + 1, Len(BytesRead))), 1, now)

(* C31: line reassembly does not depend on how the byte stream is cut into   *)
(* reads: bytes that arrive in one read leave the session (state, envelope,  *)
(* retained fragment), the replies and the messages handed off exactly as    *)
(* the same bytes arriving in two reads cut at any position would; and a     *)
(* read that brings no line feed completes no line: it changes nothing but   *)
(* the retained fragment.                                                    *)
C31_ChunkingIndependent ==
  [][ feed'[1] # feed[1] =>
        /\ \A j \in 1..(Len(BytesRead) - 1) :
              LET two == InTwoReads(j)
              IN /\ currentState' = two.s.st
                 /\ currentMail' = two.s.mail
                 /\ sockets'[1].buffer = two.buffer
                 /\ Replies = two.s.out
                 /\ [k \in 1..Len(handed') |-> handed'[k].raw] = two.s.msgs
        /\ (\A k \in 1..Len(BytesRead) : BytesRead[k] # 10) =>
              /\ currentState' = currentState
              /\ currentMail' = currentMail
              /\ written' = <<>>
              /\ handed' = <<>> ]_vars

----------------------------------------------------------------------------
ReplyCodes == {"220", "250", "354", "500", "550", "221"}

\* the lines received last on connection 1 are HELO; MAIL FROM; RCPT TO; DATA and
\* body lines: the next line other than "." is a body line of the DATA section
InDataSection == pat.conn = 1 /\ pat.phase = 4

(* C32: the reply stream of a connection is the greeting, written once on    *)
(* accept, then one reply for every complete line that is not a body line of *)
(* a DATA section and none for a body line; every reply begins with one of   *)
(* the codes 220, 250, 354, 500, 550, 221.                                   *)
C32_ReplyStream ==
  [][ /\ Accept(1) => Replies = <<"220 tempmail.local SMTP Service Ready\r\n">>
      /\ \A line \in SessionLines :
           (Receives(line) /\ ~sockets[1].ended) =>
             /\ \A k \in 1..Len(Replies) :
                   /\ SubSeq(Replies[k], 1, 3) \in ReplyCodes \ {"220"}
                   /\ endsWith(Replies[k], CRLF)
             /\ (InDataSection /\ line # ".") => Replies = <<>>
             /\ (line = "." \/ (~InDataSection /\ currentState # "DATA")) =>
                   Len(Replies) = 1 ]_vars

----------------------------------------------------------------------------
(* Specification SpecAcceptor: the SMTPHandler that keeps the set of its     *)
(* connections (start, stop, handleConnection and the end / error / close    *)
(* handlers it attaches). A socket's status is "idle" before it connects,    *)
(* "open" once accepted, "ended" after its end event, "errored" after an     *)
(* error event and "closed" after its close event, which is the last one.    *)

\* start(): net.createServer(...).listen(port, host)
SMTPHandler_start ==
  /\ server # "listening"
  /\ server' = "listening"
  /\ written' = <<>>
  /\ UNCHANGED <<sockets, connections, destroyed>>

\* stop(): destroy every socket of the set, clear the set, close the server
SMTPHandler_stop ==
  /\ IF server # "none"
     THEN /\ destroyed' = destroyed \cup connections
          /\ connections' = {}
          /\ server' = "closed"
     ELSE UNCHANGED <<connections, server, destroyed>>
  /\ written' = <<>>
  /\ UNCHANGED sockets

\* the server's connection callback: handleConnection(socket)
SMTPHandler_handleConnection(c) ==
  /\ server = "listening"
  /\ sockets[c].status = "idle"
  /\ connections' = connections \cup {c}
  /\ sockets' = [sockets EXCEPT ![c] = [status |-> "open", ended |-> FALSE, buffer |-> ""]]
  /\ written' = << [conn |-> c, text |-> "220 tempmail.local SMTP Service Ready\r\n"] >>
  /\ UNCHANGED <<server, destroyed>>

\* socket.on("data") for the chunk "QUIT\r\n", the only input of this specification: the
\* connection's mailState is "READY", so the line is the QUIT command: 221, socket.end()
OnDataQuit(c) ==
  /\ sockets[c].status = "open"
  /\ c \notin destroyed
  /\ sockets' = [sockets EXCEPT ![c].ended = TRUE]
  /\ written' = IF sockets[c].ended THEN <<>> ELSE << [conn |-> c, text |-> "221 Bye\r\n"] >>
  /\ UNCHANGED <<connections, server, destroyed>>

\* a handler that only logs and leaves the socket in the set
OnError_KeepsSocket(c) ==
  /\ sockets[c].status \in {"open", "ended"}
  /\ c \notin destroyed
  /\ sockets' = [sockets EXCEPT ![c].status = "errored"]
  /\ written' = <<>>
  /\ UNCHANGED <<connections, server, destroyed>>

\* socket.on("end"): the peer has finished sending
OnEnd(c) ==
  /\ sockets[c].status = "open"
  /\ c \notin destroyed
  /\ connections' = connections \ {c}
  /\ sockets' = [sockets EXCEPT ![c].status = "ended"]
  /\ written' = <<>>
  /\ UNCHANGED <<server, destroyed>>

\* socket.on("error")
OnError(c) ==
  /\ sockets[c].status \in {"open", "ended"}
  /\ c \notin destroyed
  /\ connections' = connections \ {c}
  /\ sockets' = [sockets EXCEPT ![c].status = "errored"]
  /\ written' = <<>>
  /\ UNCHANGED <<server, destroyed>>

\* socket.on("close"): after the socket has ended, failed or been destroyed
OnCloseEvent(c) ==
  /\ \/ sockets[c].status \in {"ended", "errored"}
     \/ sockets[c].status = "open" /\ c \in destroyed
  /\ connections' = connections \ {c}
  /\ sockets' = [sockets EXCEPT ![c].status = "closed"]
  /\ written' = <<>>
  /\ UNCHANGED <<server, destroyed>>

AcceptorFrame ==
  UNCHANGED <<currentState, currentMail, handed, pat, fin, feed, tasks, storeVars,
              lastResult, files, apiVars, cleanVars, requests, postfixVars, schedulerVars>>

NextAcceptor ==
  \/ SMTPHandler_start /\ AcceptorFrame
  \/ SMTPHandler_stop /\ AcceptorFrame
  \/ \E c \in Conns : SMTPHandler_handleConnection(c) /\ AcceptorFrame
  \/ \E c \in Conns : OnDataQuit(c) /\ AcceptorFrame
  \/ \E c \in Conns : OnEnd(c) /\ AcceptorFrame
  \/ \E c \in Conns : OnError(c) /\ AcceptorFrame
  \/ \E c \in Conns : OnCloseEvent(c) /\ AcceptorFrame

SpecAcceptor == Init /\ [][NextAcceptor]_vars

\* accepted, and neither ended nor failed nor closed; a destroyed socket is closed
LiveConnections == {c \in Conns : sockets[c].status = "open" /\ c \notin destroyed}

(* C33: the set of connections is always the set of the accepted sockets     *)
(* that have not ended, failed or closed. A socket enters the set only when  *)
(* it is accepted, a removal of a socket that is not in the set changes      *)
(* nothing, and a stop() of a started server leaves the set empty and every  *)
(* socket that was in it destroyed.                                          *)
C33_LiveConnectionSet ==
  /\ [](connections = LiveConnections)
  /\ [][ /\ \A c \in connections' \ connections :
               sockets[c].status = "idle" /\ sockets'[c].status = "open"
         /\ \A c \in Conns :
               (sockets'[c].status # sockets[c].status /\ c \notin connections
                  /\ sockets[c].status # "idle") => connections' = connections
         /\ (server # "none" /\ server' = "closed") =>
               connections' = {} /\ connections \subseteq destroyed' ]_vars

\* stop() has emptied a set that held both sockets, and their close events are still to come
C33_StoppedWithConnections ==
  /\ server = "closed"
  /\ connections = {}
  /\ destroyed = Conns
  /\ \A c \in Conns : sockets[c].status = "open"

----------------------------------------------------------------------------
(* Specification SpecStore: files are ingested while the address store is    *)
(* changed under the pipeline: time passes, addresses are deactivated, the   *)
(* cleanup run is attempted, and TempEmail.cleanup() deletes rows (the       *)
(* statement behind the cleanup run; the rows of table emails go with their  *)
(* address, ON DELETE CASCADE).                                              *)

\* a deletion that leaves the rows of emails as they are
OnDeleteCascade_NoAction(rows, kept) == rows

\* emails.temp_email_id REFERENCES temp_emails(id) ON DELETE CASCADE: the rows of
\* emails whose address row is deleted are deleted with it
OnDeleteCascade(rows, kept) ==
  SelectSeq(rows, LAMBDA e : \E r \in kept : r.id = e.data.temp_email_id)

\* TempEmail.cleanup(): DELETE FROM temp_emails WHERE expires_at < NOW() OR is_active = false
TempEmail_cleanup ==
  LET kept == {r \in temp_emails : ~(r.expires_at < now \/ ~r.is_active)}
  IN /\ temp_emails' = kept
     /\ emails' = OnDeleteCascade(emails, kept)
     /\ UNCHANGED <<emails_id_seq, now>>

StoreFiles == { <<F_Basic>>, <<F_Basic, F_WithId>>, <<F_WithId, F_SameId>>, <<F_Unknown>> }

InitStore ==
  /\ InitSession
  /\ feed = [c \in Conns |-> <<>>]
  /\ tasks = <<>>
  /\ temp_emails = {Registered}
  /\ emails = <<>>
  /\ emails_id_seq = 0
  /\ now = 0
  /\ lastResult = <<>>
  /\ files \in StoreFiles
  /\ buckets = {}
  /\ response = <<>>
  /\ temp_emails_id_seq = 1
  /\ calls = 0
  /\ InitService

StoreFrame == UNCHANGED <<sessionVars, feed, tasks, lastResult, files, apiVars, serviceVars>>

NextStore ==
  \/ ReadFile
  \/ \E i \in 1..Len(tasks) : Resolve(i) /\ Quiet
  \/ \E i \in 1..Len(tasks) : Gate(i) /\ Quiet
  \/ \E i \in 1..Len(tasks) : Insert(i) /\ Quiet
  \/ Tick /\ StoreFrame
  \/ \E r \in temp_emails : Deactivate(r.id) /\ StoreFrame
  \/ TempEmail_cleanup /\ StoreFrame
  \/ cleanupExpiredEmails /\ ApiFrame /\ UNCHANGED calls

SpecStore == InitStore /\ [][NextStore]_vars

(* C34: whatever happens to the address between the gate and the insert      *)
(* (deactivation, expiry, a cleanup run, deletion of the row), every row of  *)
(* table emails refers to an address row that is in table temp_emails.       *)
C34_NoDanglingReference ==
  \A k \in 1..Len(emails) : \E r \in temp_emails : r.id = emails[k].data.temp_email_id

\* a message passed the gate, its address row was deleted, and the insert failed
C34_AddressDeletedBeforeInsert ==
  /\ lastResult # <<>>
  /\ lastResult[1].kind = "error"
  /\ lastResult[1].live
  /\ temp_emails = {}

----------------------------------------------------------------------------
(* Specification SpecClean: the treatment of the plain-text body in          *)
(* processIncomingEmail (lines 58-98), observed on its own: the text of the  *)
(* parsed message, then the cut of leaked headers, then the decoding.        *)

MaxBodyLines == 4

BodyLineKinds ==
  { "Received: by x", "DKIM-Signature: y", "", "Hi ", "--boundary", "Content-Type: text/plain" }

\* parsed.text: up to MaxBodyLines lines of these kinds, and two longer texts in which
\* three lines follow the Content-Type line
ParsedTexts ==
  {join(ls, "\n") : ls \in UNION {[1..n -> BodyLineKinds] : n \in 1..MaxBodyLines}}
    \cup { "Received: by x\nDKIM-Signature: y\nContent-Transfer-Encoding: 8bit\na\nb\nc\nd\n",
           "Received: by x\nDKIM-Signature: y\nContent-Type: text/plain\na\nb\nc" }

InitClean ==
  /\ InitSession
  /\ feed = [c \in Conns |-> <<>>]
  /\ tasks = <<>>
  /\ temp_emails = {}
  /\ emails = <<>>
  /\ emails_id_seq = 0
  /\ now = 0
  /\ lastResult = <<>>
  /\ files = <<>>
  /\ buckets = {}
  /\ response = <<>>
  /\ temp_emails_id_seq = 0
  /\ calls = 0
  /\ connections = {}
  /\ server = "none"
  /\ destroyed = {}
  /\ body_text \in ParsedTexts
  /\ bodyStage = "parsed"
  /\ requests = <<>>
  /\ emailData = ""
  /\ isReceivingData = FALSE
  /\ postfixSocket = "none"
  /\ incoming = <<>>
  /\ processed = <<>>
  /\ jobs = <<>>
  /\ isRunning = FALSE
  /\ returned = <<>>

CleanFrame ==
  UNCHANGED <<sessionVars, feed, tasks, storeVars, lastResult, files, apiVars,
              acceptorVars, requests, postfixVars, schedulerVars>>

\* lines 61-93
CleanStep ==
  /\ bodyStage = "parsed"
  /\ body_text' = CleanBody(body_text)
  /\ bodyStage' = "cleaned"

\* lines 95-98
DecodeStep ==
  /\ bodyStage = "cleaned"
  /\ body_text' = IF NeedsQPDecoding(body_text) THEN decodeQuotedPrintable(body_text)
                  ELSE body_text
  /\ bodyStage' = "decoded"

NextClean ==
  \/ CleanStep /\ CleanFrame
  \/ DecodeStep /\ CleanFrame

SpecClean == InitClean /\ [][NextClean]_vars

\* line i of the text (counted from 1) is a marker at which the message starts: a MIME
\* boundary line, or a line that is not empty, has no ":" and follows a blank line
IsStartMarker(ls, i) ==
  \/ startsWith(trim(ls[i]), "--") /\ includes(trim(ls[i]), "boundary")
  \/ i > 1 /\ trim(ls[i - 1]) = "" /\ trim(ls[i]) # "" /\ ~includes(ls[i], ":")

\* line i is a marker three lines before the start of the message
IsSkipMarker(ls, i) ==
  includes(ls[i], "Content-Type: text/plain") \/ includes(ls[i], "Content-Transfer-Encoding:")

\* the text after the cleanup, for a text and its cleaned form
CleanedAsClaimed(text, cleaned) ==
  LET ls    == split(text, "\n")
      n     == Len(ls)
      marks == {i \in 1..n : IsStartMarker(ls, i) \/ IsSkipMarker(ls, i)}
  IN IF ~(includes(text, "Received: by") /\ includes(text, "DKIM-Signature:")) \/ marks = {}
     THEN cleaned = text
     ELSE LET i     == CHOOSE k \in marks : \A m \in marks : k <= m
              first == IF IsStartMarker(ls, i) THEN i
                       ELSE IF i + 3 <= n THEN i + 3 ELSE n
          IN /\ first \in 1..n
             /\ cleaned = trim(join(SubSeq(ls, first, n), "\n"))

(* C35: the cleanup of leaked headers only cuts the body at the front. A body*)
(* that does not contain both "Received: by" and "DKIM-Signature:" is left   *)
(* as it is; otherwise the cleaned body is the trimmed text of the body's    *)
(* lines from the first marker line on (from three lines past it, at most    *)
(* the last line, when the marker is a Content-Type: text/plain or a         *)
(* Content-Transfer-Encoding: line), and that line is a line of the body.    *)
C35_CleanupCutsAtMarker ==
  [][ (bodyStage = "parsed" /\ bodyStage' = "cleaned") =>
        CleanedAsClaimed(body_text, body_text') ]_vars

\* ---------------------------------------------------------------------------
\* Transactions with several RCPT TO commands: the envelope's recipient list is
\* joined into one To header (processSMTPEmail) and extractRecipientEmail takes
\* the first address the parser finds in it.
\* ---------------------------------------------------------------------------

Registered2 ==
  [id |-> 2, email_address |-> "e@d.com", created_at |-> 0, expires_at |-> 1, is_active |-> TRUE]

Transaction(rcpts) ==
  << "HELO t", "MAIL FROM:<a@b.com>" >> \o rcpts \o << "DATA", "x", "." >>

S_TwoLive      == Transaction(<< "RCPT TO:<c@d.com>", "RCPT TO:<e@d.com>" >>)
S_TwoLiveOther == Transaction(<< "RCPT TO:<e@d.com>", "RCPT TO:<c@d.com>" >>)
S_UnknownFirst == Transaction(<< "RCPT TO:<n@d.com>", "RCPT TO:<c@d.com>" >>)
S_NoAtFirst    == Transaction(<< "RCPT TO:<bob>", "RCPT TO:<e@d.com>" >>)
S_EmptyFirst   == Transaction(<< "RCPT TO:bob", "RCPT TO:<e@d.com>" >>)
S_Three        == Transaction(<< "RCPT TO:<c@d.com>", "RCPT TO:<e@d.com>", "RCPT TO:<n@d.com>" >>)

MultiScripts ==
  {S_Payload, S_TwoLive, S_TwoLiveOther, S_UnknownFirst, S_NoAtFirst, S_EmptyFirst, S_Three}

InitMulti ==
  /\ InitSession
  /\ tasks = <<>>
  /\ temp_emails = {Registered, Registered2}
  /\ emails = <<>>
  /\ emails_id_seq = 0
  /\ now = 0
  /\ lastResult = <<>>
  /\ buckets = {}
  /\ response = <<>>
  /\ temp_emails_id_seq = 2
  /\ calls = 0
  /\ InitService
  /\ feed \in {[c \in Conns |-> IF c = 1 THEN s ELSE <<>>] : s \in MultiScripts}
  /\ files = <<>>

NextMulti ==
  \/ feed[1] # <<>> /\ Accept(1) /\ UNCHANGED restVars
  \/ Deliver(1)
  \/ \E i \in 1..Len(tasks) : Resolve(i) /\ Quiet
  \/ \E i \in 1..Len(tasks) : Gate(i) /\ Quiet
  \/ \E i \in 1..Len(tasks) : Insert(i) /\ Quiet
  \/ Tick /\ UNCHANGED <<sessionVars, feed, tasks, lastResult, files, apiVars, serviceVars>>

SpecMulti == InitMulti /\ [][NextMulti]_vars

\* b1 .. bn: the recipient list of the envelope the message was handed off with
EnvelopeRecipients(raw) == split(RawHeader(raw, "To"), ", ")

\* C36: a "." hands off one message whose To header is the envelope's recipient
\* list b1, ..., bn in order; a hand-off is persisted at most once; and every
\* record persisted from a session is for b1, never for one of b2 .. bn
C36_RecordForFirstRecipientOnly ==
  /\ [] \A k \in 1..Len(emails) :
          emails[k].task.conn # 0 =>
            SameAddress(emails[k].data.recipient_email,
                        EnvelopeRecipients(emails[k].task.raw)[1])
  /\ [][ /\ Len(handed') <= 1
         /\ (feed' # feed /\ handed' # <<>>) =>
                              /\ Len(tasks') = Len(tasks) + 1
                              /\ RawHeader(handed'[1].raw, "To") = join(currentMail.to, ", ")
         /\ Len(emails') <= Len(emails) + 1
         /\ Len(emails') > Len(emails) => Len(tasks') < Len(tasks) ]_vars

\* ---------------------------------------------------------------------------
\* Reading and deleting one email through an address: GET and DELETE
\* /:email/emails/:emailId.  The GET handler awaits TempEmail.findByEmail,
\* Email.findById and Email.markAsRead in turn; other requests run in between.
\* ---------------------------------------------------------------------------

MaxReads == 3

F_Other == "To: e@d.com\r\n\r\ny\r\n"

ReadUrlEmails == {"c@d.com", "e@d.com", "n@d.com"}

InitRead ==
  /\ InitSession
  /\ feed = [c \in Conns |-> <<>>]
  /\ tasks = <<>>
  /\ temp_emails = {Registered, Registered2}
  /\ temp_emails_id_seq = 2
  /\ emails = <<>>
  /\ emails_id_seq = 0
  /\ now = 0
  /\ lastResult = <<>>
  /\ files \in {<<F_Basic, F_Other>>, <<F_Other, F_Basic>>}
  /\ buckets = {}
  /\ response = <<>>
  /\ calls = MaxReads
  /\ InitService

\* Email.findById: SELECT * FROM emails WHERE id = $1; <<>> stands for undefined
Email_findById(id) ==
  LET hits == {k \in 1..Len(emails) : emails[k].id = id}
  IN IF hits = {} THEN <<>> ELSE << emails[CHOOSE k \in hits : TRUE] >>

\* Email.markAsRead: the table after UPDATE emails SET is_read = true WHERE id = $1
Email_markAsRead(id) ==
  [k \in 1..Len(emails) |-> IF emails[k].id = id THEN [emails[k] EXCEPT !.is_read = TRUE]
                            ELSE emails[k]]

NotOwned_OnlyMissing(emailRecord, tempEmail) == emailRecord = <<>>

\* !emailRecord || emailRecord.temp_email_id !== tempEmail.id
NotOwned(emailRecord, tempEmail) ==
  emailRecord = <<>> \/ emailRecord[1].data.temp_email_id # tempEmail.id

\* EmailService.getEmailContent(emailRecord)
getEmailContent(email) ==
  [id |-> email.id, from |-> email.data.sender_email, to |-> email.data.recipient_email,
   subject |-> email.data.subject, isRead |-> email.is_read,
   bodyText |-> email.data.body_text]

ReadFrame ==
  UNCHANGED <<sessionVars, feed, tasks, lastResult, files, acceptorVars, cleanVars,
              postfixVars, schedulerVars>>

\* GET /:email/emails/:emailId up to its first await: the rate limiter, then
\* TempEmail.findByEmail(emailAddress)
GetEmail(ip, email, emailId) ==
  /\ buckets' = consume(ip)
  /\ IF Rejected(ip)
     THEN /\ response' = TooManyRequests("getEmail", ip)
          /\ UNCHANGED requests
     ELSE IF findByEmail(email) = <<>>
     THEN /\ response' = [route |-> "getEmail", status |-> 404, email |-> email,
                          emailId |-> emailId, error |-> "Temporary email not found"]
          /\ UNCHANGED requests
     ELSE /\ response' = <<>>
          /\ requests' = Append(requests, [route |-> "getEmail", pc |-> "findById",
                                           email |-> email, emailId |-> emailId,
                                           tempEmail |-> findByEmail(email)[1],
                                           emailRecord |-> <<>>])
  /\ UNCHANGED <<temp_emails, emails, emails_id_seq, now, temp_emails_id_seq>>

\* Email.findById(emailId) and the ownership test
GetEmail_findById(i) ==
  /\ requests[i].route = "getEmail" /\ requests[i].pc = "findById"
  /\ LET r == requests[i]
         emailRecord == Email_findById(r.emailId)
     IN IF NotOwned(emailRecord, r.tempEmail)
        THEN /\ response' = [route |-> "getEmail", status |-> 404, email |-> r.email,
                             emailId |-> r.emailId, error |-> "Email not found"]
             /\ requests' = RemoveAt(requests, i)
        ELSE /\ response' = <<>>
             /\ requests' = [requests EXCEPT ![i].pc = "markAsRead",
                                             ![i].emailRecord = emailRecord]
  /\ UNCHANGED <<temp_emails, emails, emails_id_seq, now, temp_emails_id_seq, buckets>>

\* Email.markAsRead(emailId), then the response built from the record read before
GetEmail_markAsRead(i) ==
  /\ requests[i].route = "getEmail" /\ requests[i].pc = "markAsRead"
  /\ LET r == requests[i]
     IN /\ emails' = Email_markAsRead(r.emailId)
        /\ response' = [route |-> "getEmail", status |-> 200, email |-> r.email,
                        emailId |-> r.emailId,
                        data |-> getEmailContent(r.emailRecord[1])]
        /\ requests' = RemoveAt(requests, i)
  /\ UNCHANGED <<temp_emails, emails_id_seq, now, temp_emails_id_seq, buckets>>

NextRead ==
  \/ ReadFile
  \/ \E i \in 1..Len(tasks) : Resolve(i) /\ Quiet
  \/ \E i \in 1..Len(tasks) : Gate(i) /\ Quiet
  \/ \E i \in 1..Len(tasks) : Insert(i) /\ Quiet
  \/ \E ip \in IPs, email \in ReadUrlEmails, emailId \in 1..2 :
        Request /\ GetEmail(ip, email, emailId) /\ ReadFrame
  \/ \E i \in 1..Len(requests) : GetEmail_findById(i) /\ ReadFrame /\ UNCHANGED calls
  \/ \E i \in 1..Len(requests) : GetEmail_markAsRead(i) /\ ReadFrame /\ UNCHANGED calls
  \/ \E ip \in IPs, email \in ReadUrlEmails, emailId \in 1..2 :
        Request /\ DeleteEmail(ip, email, emailId) /\ ApiFrame

SpecRead == InitRead /\ [][NextRead]_vars

\* the email with this id exists and belongs to an address other than `email`
ForeignEmail(email, emailId) ==
  \E k \in 1..Len(emails) :
     /\ emails[k].id = emailId
     /\ \E r \in temp_emails : /\ r.id = emails[k].data.temp_email_id
                               /\ r.email_address # email

\* the step answers a GET /:email/emails/:emailId that the rate limiter let through
GetResponds ==
  /\ calls' # calls \/ requests' # requests
  /\ response' # <<>>
  /\ response'.route = "getEmail"
  /\ response'.status # 429

\* C37: a GET or DELETE of an email through an address it does not belong to
\* is answered 404 and changes no email; a GET answered 200 sets is_read of
\* the email it names and changes nothing else; and an email becomes read
\* only by a GET answered 200 that names it through the address owning it
C37_OnlyThroughOwnAddress ==
  [][ /\ \A ip \in IPs, email \in ReadUrlEmails, emailId \in 1..2 :
           (DeleteEmail(ip, email, emailId) /\ ~Rejected(ip) /\ ForeignEmail(email, emailId)) =>
              /\ response'.status = 404
              /\ emails' = emails
      /\ (GetResponds /\ ForeignEmail(response'.email, response'.emailId)) =>
              /\ response'.status = 404
              /\ emails' = emails
      /\ (GetResponds /\ response'.status = 200) =>
              /\ Len(emails') = Len(emails)
              /\ \A k \in 1..Len(emails) :
                    emails'[k] = IF emails[k].id = response'.emailId
                                 THEN [emails[k] EXCEPT !.is_read = TRUE]
                                 ELSE emails[k]
      /\ \A k \in 1..Len(emails), m \in 1..Len(emails') :
           (emails'[m].id = emails[k].id /\ emails'[m].is_read # emails[k].is_read) =>
              /\ GetResponds
              /\ response'.status = 200
              /\ response'.emailId = emails[k].id
              /\ \E r \in temp_emails : /\ r.id = emails[k].data.temp_email_id
                                        /\ r.email_address = response'.email ]_vars

\* a GET through the wrong address has just been answered 404 and its email is
\* still there, unread, next to an email that a GET through its own address marked
C37_ForeignGetRefused ==
  /\ response # <<>>
  /\ response.route = "getEmail"
  /\ response.status = 404
  /\ response.error = "Email not found"
  /\ ForeignEmail(response.email, response.emailId)
  /\ \E k, m \in 1..Len(emails) :
        /\ emails[k].id = response.emailId
        /\ ~emails[k].is_read
        /\ emails[m].is_read

\* ---------------------------------------------------------------------------
\* Concurrent POST /generate requests for custom addresses.  The handler awaits
\* TempEmail.findByEmail and then TempEmail.create; other requests run between
\* the two, and the INSERT fails when email_address is already in the table
\* (UNIQUE), which the handler's catch answers with 500.
\* ---------------------------------------------------------------------------

MaxPosts == 3

PostAddresses == {"c@d.com", "g@d.com", "g@x.org"}

InitGenerate ==
  /\ InitSession
  /\ feed = [c \in Conns |-> <<>>]
  /\ tasks = <<>>
  /\ temp_emails = {Registered}
  /\ temp_emails_id_seq = 1
  /\ emails = <<>>
  /\ emails_id_seq = 0
  /\ now = 0
  /\ lastResult = <<>>
  /\ files = <<>>
  /\ buckets = {}
  /\ response = <<>>
  /\ calls = MaxPosts
  /\ InitService

\* POST /generate with a custom address up to its first await: the rate limiter,
\* the domain test, then TempEmail.findByEmail(customAddress)
Generate_findByEmail(ip, customAddress, expiryHours) ==
  /\ buckets' = consume(ip)
  /\ IF Rejected(ip)
     THEN /\ response' = TooManyRequests("generate", ip)
          /\ UNCHANGED requests
     ELSE IF ~endsWith(customAddress, "@" \o EMAIL_DOMAIN)
     THEN /\ response' = [route |-> "generate", status |-> 400, customAddress |-> customAddress]
          /\ UNCHANGED requests
     ELSE IF findByEmail(customAddress) # <<>>
     THEN /\ response' = [route |-> "generate", status |-> 409, customAddress |-> customAddress,
                          error |-> "Email address already exists"]
          /\ UNCHANGED requests
     ELSE /\ response' = <<>>
          /\ requests' = Append(requests, [route |-> "generate", pc |-> "create",
                                           customAddress |-> customAddress,
                                           expiryHours |-> expiryHours])
  /\ UNCHANGED <<temp_emails, temp_emails_id_seq, emails, emails_id_seq, now>>

\* TempEmail.create(emailAddress, expiryHours) and the response, or the catch
Generate_create(i) ==
  /\ requests[i].route = "generate" /\ requests[i].pc = "create"
  /\ LET r         == requests[i]
         tempEmail == TempEmail_create(r.customAddress, r.expiryHours)
     IN /\ temp_emails_id_seq' = tempEmail.id
        /\ requests' = RemoveAt(requests, i)
        /\ IF \E row \in temp_emails : row.email_address = r.customAddress
           THEN /\ response' = [route |-> "generate", status |-> 500,
                                customAddress |-> r.customAddress,
                                error |-> "Failed to generate temporary email"]
                /\ UNCHANGED temp_emails
           ELSE /\ response' = [route |-> "generate", status |-> 200,
                                customAddress |-> r.customAddress,
                                email |-> tempEmail.email_address,
                                expiresAt |-> tempEmail.expires_at,
                                createdAt |-> tempEmail.created_at]
                /\ temp_emails' = temp_emails \cup {tempEmail}
  /\ UNCHANGED <<emails, emails_id_seq, now, buckets>>

NextGenerate ==
  \/ \E ip \in IPs, customAddress \in PostAddresses, expiryHours \in Hours :
        Request /\ Generate_findByEmail(ip, customAddress, expiryHours) /\ ReadFrame
  \/ \E i \in 1..Len(requests) : Generate_create(i) /\ ReadFrame /\ UNCHANGED calls
  \/ \E r \in temp_emails : Deactivate(r.id) /\ ApiFrame /\ UNCHANGED apiVars

SpecGenerate == InitGenerate /\ [][NextGenerate]_vars

\* the step answers a POST /generate for a custom address
GenerateResponds ==
  /\ calls' # calls \/ requests' # requests
  /\ response' # <<>>
  /\ response'.route = "generate"
  /\ response'.status \in {200, 409, 500}

\* C38: no two address records carry the same address, and a POST /generate
\* whose custom address has a record when it is answered, active or not and
\* whoever created it, is answered 409 'Email address already exists' and
\* creates nothing
C38_DuplicateAnswered409 ==
  /\ [] \A r1, r2 \in temp_emails : r1.email_address = r2.email_address => r1 = r2
  /\ [][ (/\ GenerateResponds
          /\ \E row \in temp_emails : row.email_address = response'.customAddress) =>
            /\ response'.status = 409
            /\ response'.error = "Email address already exists"
            /\ temp_emails' = temp_emails ]_vars

\* ---------------------------------------------------------------------------
\* The raw PostfixHandler: one connection whose reads are appended to emailData
\* from the read that contains 'MAIL FROM:' on, and handed to processEmail by
\* the read that contains the terminator, or when the connection ends.
\* ---------------------------------------------------------------------------

PostfixMessage == "MAIL FROM:<a@b.com>\r\nTo: c@d.com\r\n\r\nx\r\n.\r\n"

\* the stream in one read, and split in two reads at every position
PostfixReads ==
  {<< PostfixMessage >>} \cup
  {<< SubSeq(PostfixMessage, 1, k), SubSeq(PostfixMessage, k + 1, Len(PostfixMessage)) >> :
     k \in 1..(Len(PostfixMessage) - 1)}

InitPostfix ==
  /\ InitSession
  /\ feed = [c \in Conns |-> <<>>]
  /\ tasks = <<>>
  /\ temp_emails = {Registered}
  /\ temp_emails_id_seq = 1
  /\ emails = <<>>
  /\ emails_id_seq = 0
  /\ now = 0
  /\ lastResult = <<>>
  /\ files = <<>>
  /\ buckets = {}
  /\ response = <<>>
  /\ calls = 0
  /\ connections = {}
  /\ server = "none"
  /\ destroyed = {}
  /\ body_text = ""
  /\ bodyStage = "none"
  /\ requests = <<>>
  /\ emailData = ""
  /\ isReceivingData = FALSE
  /\ postfixSocket = "none"
  /\ incoming \in PostfixReads
  /\ processed = <<>>
  /\ jobs = <<>>
  /\ isRunning = FALSE
  /\ returned = <<>>

PostfixFrame ==
  UNCHANGED <<sessionVars, feed, storeVars, files, apiVars, acceptorVars, cleanVars,
              requests, schedulerVars>>

\* PostfixHandler.processEmail(rawEmail): the call is recorded and its
\* processIncomingEmail starts
PostfixHandler_processEmail(rawEmail) ==
  /\ processed' = Append(processed, rawEmail)
  /\ tasks' = Append(tasks, NewTask(0, rawEmail, <<>>))

\* handleConnection(socket): emailData = '', isReceivingData = false
PostfixHandler_handleConnection ==
  /\ postfixSocket = "none"
  /\ postfixSocket' = "open"
  /\ emailData' = ""
  /\ isReceivingData' = FALSE
  /\ UNCHANGED <<incoming, processed, tasks, lastResult>>
  /\ PostfixFrame

\* socket.on('data'): the next read arrives
PostfixHandler_onData ==
  /\ postfixSocket = "open"
  /\ incoming # <<>>
  /\ LET chunk     == Head(incoming)
         starts    == includes(chunk, "MAIL FROM:")
         receiving == starts \/ isReceivingData
         data      == IF receiving THEN (IF starts THEN "" ELSE emailData) \o chunk
                      ELSE emailData
     IN IF includes(chunk, "\r\n.\r\n") \/ endsWith(chunk, "\n.\n")
        THEN /\ isReceivingData' = FALSE
             /\ PostfixHandler_processEmail(data)
             /\ emailData' = ""
        ELSE /\ isReceivingData' = receiving
             /\ emailData' = data
             /\ UNCHANGED <<processed, tasks>>
  /\ incoming' = Tail(incoming)
  /\ lastResult' = <<>>
  /\ UNCHANGED postfixSocket
  /\ PostfixFrame

\* socket.on('end'): what is left in emailData is handed over
PostfixHandler_onEnd ==
  /\ postfixSocket = "open"
  /\ incoming = <<>>
  /\ postfixSocket' = "ended"
  /\ IF trim(emailData) # ""
     THEN PostfixHandler_processEmail(emailData)
     ELSE UNCHANGED <<processed, tasks>>
  /\ lastResult' = <<>>
  /\ UNCHANGED <<emailData, isReceivingData, incoming>>
  /\ PostfixFrame

NextPostfix ==
  \/ PostfixHandler_handleConnection
  \/ PostfixHandler_onData
  \/ PostfixHandler_onEnd
  \/ \E i \in 1..Len(tasks) : Resolve(i) /\ Quiet
  \/ \E i \in 1..Len(tasks) : Gate(i) /\ Quiet
  \/ \E i \in 1..Len(tasks) : Insert(i) /\ Quiet

SpecPostfix == InitPostfix /\ [][NextPostfix]_vars

\* C39: whatever the reads the stream arrives in, processEmail is called at
\* most once, only with the complete message (never with empty or partial
\* content), and once the connection has ended it has been called
C39_HandedOverOnceWhole ==
  /\ Len(processed) <= 1
  /\ \A k \in 1..Len(processed) : processed[k] = PostfixMessage
  /\ postfixSocket = "ended" => Len(processed) = 1

\* ---------------------------------------------------------------------------
\* The CleanupScheduler singleton: a map of named cron jobs and a running flag.
\* A job is [running, starts]: whether its CronJob runs, and how many times
\* start() has been called on it.
\* ---------------------------------------------------------------------------

BuiltInJobs == {"cleanup", "stats", "maintenance"}
JobNames    == BuiltInJobs \cup {"custom"}

\* new cron.CronJob(pattern, task): created, not started
CronJob == [running |-> FALSE, starts |-> 0]

\* job.start()
CronJob_start(job) == [running |-> TRUE, starts |-> job.starts + 1]

\* this.jobs.set(name, job)
Map_set(map, name, job) ==
  [n \in DOMAIN map \cup {name} |-> IF n = name THEN job ELSE map[n]]

\* this.jobs.delete(name)
Map_delete(map, name) == [n \in DOMAIN map \ {name} |-> map[n]]

InitScheduler ==
  /\ InitSession
  /\ feed = [c \in Conns |-> <<>>]
  /\ tasks = <<>>
  /\ temp_emails = {}
  /\ temp_emails_id_seq = 0
  /\ emails = <<>>
  /\ emails_id_seq = 0
  /\ now = 0
  /\ lastResult = <<>>
  /\ files = <<>>
  /\ buckets = {}
  /\ response = <<>>
  /\ calls = 0
  /\ InitService

SchedulerFrame ==
  UNCHANGED <<sessionVars, feed, tasks, storeVars, lastResult, files, apiVars,
              acceptorVars, cleanVars, requests, postfixVars>>

\* start(): nothing when running; else the three jobs are set, every job of the
\* map is started and isRunning becomes true
CleanupScheduler_start ==
  /\ IF isRunning
     THEN UNCHANGED <<jobs, isRunning>>
     ELSE LET set == [n \in DOMAIN jobs \cup BuiltInJobs |->
                        IF n \in BuiltInJobs THEN CronJob ELSE jobs[n]]
          IN /\ jobs' = [n \in DOMAIN set |-> CronJob_start(set[n])]
             /\ isRunning' = TRUE
  /\ returned' = [op |-> "start", name |-> "", result |-> "undefined"]
  /\ SchedulerFrame

\* stop(): nothing when not running; else every job is stopped, the map is
\* cleared and isRunning becomes false
CleanupScheduler_stop ==
  /\ IF ~isRunning
     THEN UNCHANGED <<jobs, isRunning>>
     ELSE /\ jobs' = <<>>
          /\ isRunning' = FALSE
  /\ returned' = [op |-> "stop", name |-> "", result |-> "undefined"]
  /\ SchedulerFrame

\* addCustomJob(name, cronPattern, taskFunction)
addCustomJob(name) ==
  /\ IF name \in DOMAIN jobs
     THEN /\ returned' = [op |-> "addCustomJob", name |-> name, result |-> "Error"]
          /\ UNCHANGED jobs
     ELSE /\ jobs' = Map_set(jobs, name, IF isRunning THEN CronJob_start(CronJob) ELSE CronJob)
          /\ returned' = [op |-> "addCustomJob", name |-> name, result |-> "customJob"]
  /\ UNCHANGED isRunning
  /\ SchedulerFrame

\* removeCustomJob(name)
removeCustomJob(name) ==
  /\ IF name \in DOMAIN jobs
     THEN /\ jobs' = Map_delete(jobs, name)
          /\ returned' = [op |-> "removeCustomJob", name |-> name, result |-> "true"]
     ELSE /\ returned' = [op |-> "removeCustomJob", name |-> name, result |-> "false"]
          /\ UNCHANGED jobs
  /\ UNCHANGED isRunning
  /\ SchedulerFrame

NextScheduler ==
  \/ CleanupScheduler_start
  \/ CleanupScheduler_stop
  \/ \E name \in JobNames : addCustomJob(name)
  \/ \E name \in JobNames : removeCustomJob(name)

SpecScheduler == InitScheduler /\ [][NextScheduler]_vars

\* C40: start() while running changes nothing; after stop() isRunning is
\* false and the job map is empty; addCustomJob with a name already in the
\* map raises an error and leaves the map unchanged; and at all times no job
\* has been started twice and, while isRunning, every job of the map has been
\* started
C40_LifecycleConsistent ==
  /\ [] \A n \in DOMAIN jobs : /\ jobs[n].starts <= 1
                               /\ isRunning => (jobs[n].running /\ jobs[n].starts = 1)
  /\ [][ /\ (CleanupScheduler_start /\ isRunning) => (jobs' = jobs /\ isRunning')
         /\ CleanupScheduler_stop => (~isRunning' /\ jobs' = <<>>)
         /\ \A name \in JobNames :
              (addCustomJob(name) /\ name \in DOMAIN jobs) =>
                 (returned'.result = "Error" /\ jobs' = jobs) ]_vars

====
